---------------------------- MODULE Spec2Model ----------------------------
(***************************************************************************)
(* Model of the browser monitor (programmerguys/mcp_dev):                  *)
(*   - BrowserMonitor (src/src/server/browser-monitor.ts, lines 126-478):  *)
(*     the live table of network requests, the request filter, the         *)
(*     network callback and the CDP connections with their listeners;      *)
(*   - BrowserMonitorServer (src/src/server/index.ts, lines 56-420): the   *)
(*     start_monitoring / stop_monitoring tools, the network_stream        *)
(*     resource, the event emitter and the SSE transport slot.             *)
(*                                                                         *)
(* JavaScript values are encoded as follows.  A nullable value is a        *)
(* sequence of length at most one: << >> is null/undefined, <<v>> is the   *)
(* value v.  A string that the code inspects character by character (a     *)
(* URL, a regular-expression source) is a sequence of one-character        *)
(* strings; an opaque string is a TLA+ string.  A header object            *)
(* (Record<string,string>) is a set of <<name, value>> pairs.              *)
(***************************************************************************)
EXTENDS Integers, Sequences, FiniteSets, TLC

(***************************************************************************)
(* Bounds of the model.                                                    *)
(***************************************************************************)
\* Largest value of the wall clock (new Date()); the clock stops there.
MaxTime == 1
\* Largest number of reads of the network_stream resource.
MaxReads == 2

(***************************************************************************)
(* Nullable values.                                                        *)
(***************************************************************************)
JNull == << >>

Some(v) == <<v>>

IsNull(o) == o = << >>

(***************************************************************************)
(* new RegExp(source).test(url), for the part of the JavaScript pattern    *)
(* syntax the model's patterns use: literal characters, "." (any           *)
(* character), "\c" (the character c), "x*" (zero or more) and "[...]" (a  *)
(* character class without ranges or negation).  The constructor throws a  *)
(* SyntaxError on an unterminated class, on "*" with nothing to repeat and *)
(* on a trailing "\".                                                      *)
(***************************************************************************)
Atom(any, chars) == [any |-> any, chars |-> chars, star |-> FALSE]

\* The position of the first "]" of p after position i, or 0.
ClassEnd(p, i) ==
  LET js == {j \in (i + 1)..Len(p) : p[j] = "]"}
  IN  IF js = {} THEN 0 ELSE CHOOSE j \in js : \A k \in js : j <= k

RECURSIVE ParseFrom(_, _, _)
ParseFrom(p, i, acc) ==
  IF i > Len(p) THEN [ok |-> TRUE, atoms |-> acc]
  ELSE IF p[i] = "\\" THEN
    IF i = Len(p) THEN [ok |-> FALSE, atoms |-> << >>]
    ELSE ParseFrom(p, i + 2, Append(acc, Atom(FALSE, {p[i + 1]})))
  ELSE IF p[i] = "." THEN ParseFrom(p, i + 1, Append(acc, Atom(TRUE, {})))
  ELSE IF p[i] = "*" THEN
    IF acc = << >> \/ acc[Len(acc)].star THEN [ok |-> FALSE, atoms |-> << >>]
    ELSE ParseFrom(p, i + 1, [acc EXCEPT ![Len(acc)].star = TRUE])
  ELSE IF p[i] = "[" THEN
    IF ClassEnd(p, i) = 0 THEN [ok |-> FALSE, atoms |-> << >>]
    ELSE ParseFrom(p, ClassEnd(p, i) + 1,
                   Append(acc, Atom(FALSE, {p[j] : j \in (i + 1)..(ClassEnd(p, i) - 1)})))
  ELSE ParseFrom(p, i + 1, Append(acc, Atom(FALSE, {p[i]})))

\* new RegExp(p) returns (TRUE) or throws (FALSE).
RegExpValid(p) == ParseFrom(p, 1, << >>).ok

AtomMatches(a, c) == a.any \/ c \in a.chars

RECURSIVE MatchHere(_, _, _, _)
MatchHere(atoms, i, s, j) ==
  IF i > Len(atoms) THEN TRUE
  ELSE IF atoms[i].star THEN
    \/ MatchHere(atoms, i + 1, s, j)
    \/ (j <= Len(s) /\ AtomMatches(atoms[i], s[j]) /\ MatchHere(atoms, i, s, j + 1))
  ELSE j <= Len(s) /\ AtomMatches(atoms[i], s[j]) /\ MatchHere(atoms, i + 1, s, j + 1)

\* new RegExp(p).test(s) for a valid p: an unanchored search.
RegExpTest(p, s) ==
  \E j \in 1..(Len(s) + 1) : MatchHere(ParseFrom(p, 1, << >>).atoms, 1, s, j)


(***************************************************************************)
(* Inputs of the model: what the event source and the callers may supply.  *)
(***************************************************************************)
\* Request identifiers the browser assigns (params.requestId).
RequestIds == {"r1"}

\* Titles of the additional page targets (target.title).
Titles == {"A"}

\* "a.c" and "abc".
UrlDot == <<"a", ".", "c">>

UrlAbc == <<"a", "b", "c">>

\* The pattern a\.c (matches "a.c" only), the invalid pattern [ and the
\* empty pattern.
PatEscDot == <<"a", "\\", ".", "c">>

PatInvalid == <<"[">>

PatEmpty == << >>

UrlPatterns == {PatEmpty, PatEscDot, PatInvalid}

TypeSets == {{}, {"xhr"}}

JsonHeaders == {<<"Content-Type", "application/json">>}

\* params of Network.requestWillBeSent, without the requestId.
StartParams ==
  { [method |-> "GET", url |-> UrlDot, headers |-> {}, type |-> "document"],
    [method |-> "GET", url |-> UrlAbc, headers |-> {}, type |-> "xhr"],
    [method |-> "POST", url |-> UrlDot, headers |-> JsonHeaders, type |-> "xhr"] }

\* params.response of Network.responseReceived.
ResponseParams ==
  { [status |-> 200, headers |-> JsonHeaders], [status |-> 404, headers |-> {}] }

\* params.encodedDataLength of Network.loadingFinished.
FinishedParams == {0, 128}

\* params.errorText of Network.loadingFailed ("" stands for a missing text).
FailedParams == {"", "net::ERR_FAILED"}

\* The filter a caller passes: Partial<RequestFilter>, a field may be absent.
FilterInputs ==
  [urlPattern : {JNull} \cup {Some(p) : p \in UrlPatterns},
   types : {JNull} \cup {Some(t) : t \in TypeSets}]

(***************************************************************************)
(* A JavaScript Map: a sequence of <<key, value>> entries with distinct    *)
(* keys, in insertion order.                                               *)
(***************************************************************************)
MapKeys(m) == {m[i][1] : i \in 1..Len(m)}

MapHas(m, k) == k \in MapKeys(m)

MapIndex(m, k) == CHOOSE i \in 1..Len(m) : m[i][1] = k

MapGet(m, k) == m[MapIndex(m, k)][2]

\* Map.prototype.set: an existing key keeps its place.
MapSet(m, k, v) ==
  IF MapHas(m, k) THEN [m EXCEPT ![MapIndex(m, k)] = <<k, v>>]
  ELSE Append(m, <<k, v>>)

\* Array.from(m.values())
MapValues(m) == [i \in 1..Len(m) |-> m[i][2]]

(***************************************************************************)
(* The state.                                                              *)
(***************************************************************************)
VARIABLES
  networkRequests,   \* BrowserMonitor.networkRequests: the live table
  requestFilter,     \* BrowserMonitor.requestFilter
  networkCallback,   \* BrowserMonitor.networkCallback (null or the callback)
  client,            \* BrowserMonitor.client (null or the main connection)
  connected,         \* BrowserMonitor.connected
  dbOpen,            \* whether requestDb's handle is open
  mainListening,     \* the connection held in client has network listeners
  orphans,           \* prefixes of the open connections the monitor holds no
                     \* reference to and whose network listeners are registered
  now,               \* the wall clock
  emitted,           \* the records passed to networkCallback by the last step
  transport,         \* BrowserMonitorServer.transport (null or an SSE link)
  sseOpen,           \* the SSE responses that are open
  streamListeners,   \* push listeners registered on 'network_request'
  pushed,            \* network_update messages sent by the last step
  last,              \* the last step: the operation, its argument (for
                     \* getActiveNetworkRequests, which has none, what it
                     \* returned) and, for a protocol event, its key and
                     \* whether the key was in the live table
  cleared,           \* the keys that a disconnect dropped from the live table
                     \* and that no requestWillBeSent has created again
  script,            \* the events a scripted run has still to deliver
  delivered,         \* the events a scripted run has delivered
  twin,              \* a second monitor that receives the same events
  rows,              \* RequestDatabase: the rows of table network_requests
  returned,          \* what the last store operation returned or threw
  replaced,          \* the row the last saveRequest replaced, if any
  priorPrune         \* when the step before the last one was a
                     \* clearOldRequests: its argument and its result

vars == <<networkRequests, requestFilter, networkCallback, client, connected,
          dbOpen, mainListening, orphans, now, emitted, transport, sseOpen,
          streamListeners, pushed, last, cleared, script, delivered, twin,
          rows, returned, replaced, priorPrune>>

monitorVars == <<networkRequests, requestFilter, networkCallback, client,
                 connected, dbOpen, mainListening, orphans>>

serverVars == <<transport, sseOpen, streamListeners>>

\* The variables of the request store.
storeVars == <<rows, returned, replaced, priorPrune>>

\* The variables of the scripted and of the paired runs.
harnessVars == <<script, delivered, twin>>

(***************************************************************************)
(* BrowserMonitor: the filter.                                             *)
(***************************************************************************)
\* JavaScript truthiness of requestFilter.urlPattern (string | null): null
\* and the empty string are falsy.
PatternTruthy(o) == ~IsNull(o) /\ o[1] # << >>

\* JavaScript truthiness of requestFilter.types (string[] | null): every
\* array, the empty one too, is truthy.
TypesTruthy(o) == ~IsNull(o)

\* String.prototype.includes on character sequences.
Includes(str, part) ==
  \E i \in 0..(Len(str) - Len(part)) : SubSeq(str, i + 1, i + Len(part)) = part

\* Mutant of shouldProcessRequest: the pattern is searched as a substring.
shouldProcessRequest_Includes(filter, request) ==
  IF ~PatternTruthy(filter.urlPattern) /\ ~TypesTruthy(filter.types) THEN TRUE
  ELSE IF PatternTruthy(filter.urlPattern)
  THEN Includes(request.url, filter.urlPattern[1])
  ELSE IF TypesTruthy(filter.types) THEN request.type \in filter.types[1]
  ELSE TRUE

\* Mutant of shouldProcessRequest: the catch branch lets the record pass.
shouldProcessRequest_InvalidPasses(filter, request) ==
  IF ~PatternTruthy(filter.urlPattern) /\ ~TypesTruthy(filter.types) THEN TRUE
  ELSE IF PatternTruthy(filter.urlPattern) THEN
    IF RegExpValid(filter.urlPattern[1])
    THEN RegExpTest(filter.urlPattern[1], request.url)
    ELSE TRUE
  ELSE IF TypesTruthy(filter.types) THEN request.type \in filter.types[1]
  ELSE TRUE

\* Mutant of shouldProcessRequest: the pattern and the type set both apply.
shouldProcessRequest_Conjunctive(filter, request) ==
  /\ PatternTruthy(filter.urlPattern) =>
       /\ RegExpValid(filter.urlPattern[1])
       /\ RegExpTest(filter.urlPattern[1], request.url)
  /\ TypesTruthy(filter.types) => request.type \in filter.types[1]

\* Mutant of shouldProcessRequest: the type set is never consulted.
shouldProcessRequest_TypesIgnored(filter, request) ==
  IF PatternTruthy(filter.urlPattern) THEN
    IF RegExpValid(filter.urlPattern[1])
    THEN RegExpTest(filter.urlPattern[1], request.url)
    ELSE FALSE
  ELSE TRUE

shouldProcessRequest(filter, request) ==
  IF ~PatternTruthy(filter.urlPattern) /\ ~TypesTruthy(filter.types) THEN TRUE
  ELSE IF PatternTruthy(filter.urlPattern) THEN
    IF RegExpValid(filter.urlPattern[1])
    THEN RegExpTest(filter.urlPattern[1], request.url)
    ELSE FALSE
  ELSE IF TypesTruthy(filter.types) THEN request.type \in filter.types[1]
  ELSE TRUE

\* Mutant of NewFilter: a field the caller omits keeps its previous value.
NewFilter_KeepsOld(filter) ==
  [urlPattern |-> IF IsNull(filter.urlPattern) THEN requestFilter.urlPattern
                  ELSE filter.urlPattern,
   types |-> IF IsNull(filter.types) THEN requestFilter.types ELSE filter.types]

\* The filter setRequestFilter stores: filter.urlPattern ?? null, filter.types ?? null.
NewFilter(filter) == [urlPattern |-> filter.urlPattern, types |-> filter.types]

(***************************************************************************)
(* BrowserMonitor.setupNetworkListeners: the four handlers, as functions   *)
(* of the table, the filter and the callback.  Each returns the new table  *)
(* and the records it passed to the callback.                              *)
(***************************************************************************)
\* '未知错误', the text loadingFailed stores when the event has none.
UnknownError == "unknown error"

RequestKey(prefix, requestId) == prefix \o requestId

NewRequest(key, params, ts) ==
  [id |-> key, timestamp |-> ts, method |-> params.method, url |-> params.url,
   headers |-> params.headers, type |-> params.type, status |-> 0,
   responseHeaders |-> {}, responseSize |-> 0, error |-> Some("")]

\* if (this.shouldProcessRequest(request) && this.networkCallback) this.networkCallback(request)
Notify(filter, callback, request) ==
  IF shouldProcessRequest(filter, request) /\ ~IsNull(callback)
  THEN <<request>> ELSE << >>

\* Mutant of requestWillBeSent: the new record is passed to the callback.
requestWillBeSent_Notifies(table, prefix, requestId, params, ts) ==
  [table |-> MapSet(table, RequestKey(prefix, requestId),
                    NewRequest(RequestKey(prefix, requestId), params, ts)),
   calls |-> <<NewRequest(RequestKey(prefix, requestId), params, ts)>>]

\* Mutant of requestWillBeSent: the record of a tracked key keeps its
\* response fields.
requestWillBeSent_KeepsResponse(table, prefix, requestId, params, ts) ==
  LET key == RequestKey(prefix, requestId)
      fresh == NewRequest(key, params, ts)
  IN  [table |-> MapSet(table, key,
                        IF MapHas(table, key)
                        THEN [fresh EXCEPT
                                !.status = MapGet(table, key).status,
                                !.responseHeaders = MapGet(table, key).responseHeaders,
                                !.responseSize = MapGet(table, key).responseSize,
                                !.error = MapGet(table, key).error]
                        ELSE fresh),
       calls |-> << >>]

requestWillBeSent(table, prefix, requestId, params, ts) ==
  [table |-> MapSet(table, RequestKey(prefix, requestId),
                    NewRequest(RequestKey(prefix, requestId), params, ts)),
   calls |-> << >>]

\* Mutant of ResponseMerge: a record that has a status keeps it.
ResponseMerge_FirstWins(request, response) ==
  IF request.status # 0 THEN request
  ELSE [request EXCEPT !.status = response.status,
                       !.responseHeaders = response.headers]

ResponseMerge(request, response) ==
  [request EXCEPT !.status = response.status, !.responseHeaders = response.headers]

\* Mutant of FinishedMerge: the finished request gets another type.
FinishedMerge_Retyped(request, encodedDataLength) ==
  [request EXCEPT !.responseSize = encodedDataLength, !.type = "other"]

\* Mutant of FinishedMerge: a finished request has no error.
FinishedMerge_ClearsError(request, encodedDataLength) ==
  [request EXCEPT !.responseSize = encodedDataLength, !.error = Some("")]

FinishedMerge(request, encodedDataLength) ==
  [request EXCEPT !.responseSize = encodedDataLength]

\* Mutant of FailedMerge: the event's text is stored as it comes.
FailedMerge_Raw(request, errorText) ==
  [request EXCEPT !.error = Some(errorText)]

\* params.errorText || '未知错误'
FailedMerge(request, errorText) ==
  [request EXCEPT !.error = Some(IF errorText = "" THEN UnknownError ELSE errorText)]

\* Mutant of responseReceived: the callback gets the record as it was
\* before the merge.
responseReceived_NotifiesStale(table, filter, callback, prefix, requestId, response) ==
  LET key == RequestKey(prefix, requestId)
  IN  IF MapHas(table, key)
      THEN LET request == ResponseMerge(MapGet(table, key), response)
           IN  [table |-> MapSet(table, key, request),
                calls |-> Notify(filter, callback, MapGet(table, key))]
      ELSE [table |-> table, calls |-> << >>]

\* Mutant of responseReceived: a record the filter rejects is not merged.
responseReceived_MergeIfAccepted(table, filter, callback, prefix, requestId, response) ==
  LET key == RequestKey(prefix, requestId)
  IN  IF MapHas(table, key)
      THEN LET request == ResponseMerge(MapGet(table, key), response)
           IN  [table |-> IF shouldProcessRequest(filter, request)
                          THEN MapSet(table, key, request) ELSE table,
                calls |-> Notify(filter, callback, request)]
      ELSE [table |-> table, calls |-> << >>]

\* const request = this.networkRequests.get(key); if (request) { merge; notify }
responseReceived(table, filter, callback, prefix, requestId, response) ==
  LET key == RequestKey(prefix, requestId)
  IN  IF MapHas(table, key)
      THEN LET request == ResponseMerge(MapGet(table, key), response)
           IN  [table |-> MapSet(table, key, request),
                calls |-> Notify(filter, callback, request)]
      ELSE [table |-> table, calls |-> << >>]

\* Mutant of loadingFinished: an event for an unknown key creates a record.
loadingFinished_Upsert(table, filter, callback, prefix, requestId, encodedDataLength) ==
  LET key == RequestKey(prefix, requestId)
      known == IF MapHas(table, key) THEN MapGet(table, key)
               ELSE NewRequest(key, [method |-> "", url |-> << >>, headers |-> {},
                                     type |-> ""], 0)
      request == FinishedMerge(known, encodedDataLength)
  IN  [table |-> MapSet(table, key, request),
       calls |-> Notify(filter, callback, request)]

loadingFinished(table, filter, callback, prefix, requestId, encodedDataLength) ==
  LET key == RequestKey(prefix, requestId)
  IN  IF MapHas(table, key)
      THEN LET request == FinishedMerge(MapGet(table, key), encodedDataLength)
           IN  [table |-> MapSet(table, key, request),
                calls |-> Notify(filter, callback, request)]
      ELSE [table |-> table, calls |-> << >>]

\* Mutant of loadingFailed: the record of a failed request is deleted.
loadingFailed_Removes(table, filter, callback, prefix, requestId, errorText) ==
  LET key == RequestKey(prefix, requestId)
  IN  IF MapHas(table, key)
      THEN LET request == FailedMerge(MapGet(table, key), errorText)
           IN  [table |-> SelectSeq(table, LAMBDA entry : entry[1] # key),
                calls |-> Notify(filter, callback, request)]
      ELSE [table |-> table, calls |-> << >>]

loadingFailed(table, filter, callback, prefix, requestId, errorText) ==
  LET key == RequestKey(prefix, requestId)
  IN  IF MapHas(table, key)
      THEN LET request == FailedMerge(MapGet(table, key), errorText)
           IN  [table |-> MapSet(table, key, request),
                calls |-> Notify(filter, callback, request)]
      ELSE [table |-> table, calls |-> << >>]

\* getActiveNetworkRequests: Array.from(this.networkRequests.values())
getActiveNetworkRequests(table) == MapValues(table)

(***************************************************************************)
(* RequestDatabase (core/database.ts): the table network_requests, keyed   *)
(* by id.  A column holds NULL (JNull) or a value (Some).  Numbers written *)
(* to the TEXT column status are decimal text, a sequence of digits.  A    *)
(* timestamp is an instant, counted in days; where SQLite compares the     *)
(* TEXT column timestamp it compares the ISO texts of the instants.        *)
(***************************************************************************)
Digits == <<"0", "1", "2", "3", "4", "5", "6", "7", "8", "9">>

DigitValue(c) == CHOOSE d \in 0..9 : Digits[d + 1] = c

\* Number.prototype.toString of a non-negative integer.
RECURSIVE NumberToString(_)
NumberToString(n) ==
  IF n < 10 THEN <<Digits[n + 1]>>
  ELSE Append(NumberToString(n \div 10), Digits[(n % 10) + 1])

\* Number(text) and CAST(text AS INTEGER) of decimal text.
RECURSIVE TextToNumber(_)
TextToNumber(text) ==
  IF text = << >> THEN 0
  ELSE 10 * TextToNumber(SubSeq(text, 1, Len(text) - 1))
       + DigitValue(text[Len(text)])

\* The width of the text toISOString gives every instant.
IsoWidth == 2

\* The length of a day, in instants.
DayLength == 1

RECURSIVE PadStart(_, _)
PadStart(text, width) ==
  IF Len(text) >= width THEN text ELSE PadStart(<<"0">> \o text, width)

\* Date.prototype.toISOString: fixed width, most significant part first.
toISOString(t) == PadStart(NumberToString(t), IsoWidth)

\* SQLite's comparison of two TEXT values (of digits): byte by byte, a proper
\* prefix first.
TextLess(a, b) ==
  \/ \E i \in 1..Len(a) :
       /\ i <= Len(b)
       /\ \A k \in 1..(i - 1) : a[k] = b[k]
       /\ DigitValue(a[i]) < DigitValue(b[i])
  \/ Len(a) < Len(b) /\ \A k \in 1..Len(a) : a[k] = b[k]

Uppers == <<"A", "B", "C", "D", "E", "F", "G", "H", "I", "J", "K", "L", "M",
            "N", "O", "P", "Q", "R", "S", "T", "U", "V", "W", "X", "Y", "Z">>

Lowers == <<"a", "b", "c", "d", "e", "f", "g", "h", "i", "j", "k", "l", "m",
            "n", "o", "p", "q", "r", "s", "t", "u", "v", "w", "x", "y", "z">>

\* LIKE ignores the case of ASCII letters.
Lower(c) ==
  IF \E i \in 1..26 : Uppers[i] = c
  THEN Lowers[CHOOSE i \in 1..26 : Uppers[i] = c] ELSE c

\* The characters of the error texts of the model.
TextChars(text) ==
  CASE text = "" -> << >>
    [] text = "net::ERR_FAILED" ->
         <<"n", "e", "t", ":", ":", "E", "R", "R", "_", "F", "A", "I", "L",
           "E", "D">>
    [] text = UnknownError -> <<"U+672A", "U+77E5", "U+9519", "U+8BEF">>

\* One character of a LIKE pattern: % is any text, _ any one character.
LikeAtom(c) ==
  IF c = "%" THEN [any |-> TRUE, chars |-> {}, star |-> TRUE]
  ELSE IF c = "_" THEN Atom(TRUE, {})
  ELSE Atom(FALSE, {Lower(c)})

\* text LIKE '%' || part || '%'
LikeContains(text, part) ==
  LET pattern == <<"%">> \o part \o <<"%">>
  IN  MatchHere([i \in 1..Len(pattern) |-> LikeAtom(pattern[i])], 1,
                [i \in 1..Len(text) |-> Lower(text[i])], 1)

RECURSIVE SetToSeq(_)
SetToSeq(S) ==
  IF S = {} THEN << >>
  ELSE LET x == CHOOSE x \in S : TRUE IN <<x>> \o SetToSeq(S \ {x})

\* JSON.stringify of a Record<string, string>: the text lists its entries.
JsonStringify(headers) == SetToSeq(headers)

\* JSON.parse of such a text.
JsonParse(text) == {text[i] : i \in 1..Len(text)}

\* The values saveRequest binds, column by column: undefined and null are
\* bound as NULL.
RowOf(request) ==
  [id |-> request.id,
   type |-> Some(request.type),
   method |-> Some(request.method),
   url |-> Some(request.url),
   status |-> IF IsNull(request.status) THEN JNull
              ELSE Some(NumberToString(request.status[1])),
   headers |-> Some(JsonStringify(request.headers)),
   responseHeaders |-> Some(JsonStringify(request.responseHeaders)),
   responseBody |-> request.responseBody,
   responseSize |-> Some(request.responseSize),
   body |-> request.body,
   timestamp |-> Some(request.timestamp),
   encodedDataLength |-> request.encodedDataLength,
   error |-> request.error]

\* Mutant of saveRequest: a column the new record leaves unset keeps the
\* value of the row it replaces.
saveRequest_KeepsOldColumns(table, request) ==
  LET new == RowOf(request)
      old == {x \in table : x.id = request.id}
  IN  {x \in table : x.id # request.id}
        \cup {IF old = {} THEN new
              ELSE LET o == CHOOSE x \in old : TRUE
                   IN  [c \in DOMAIN new |->
                          IF c # "id" /\ new[c] = JNull THEN o[c] ELSE new[c]]}

\* INSERT OR REPLACE INTO network_requests: id is the primary key.
saveRequest(table, request) ==
  {x \in table : x.id # request.id} \cup {RowOf(request)}

\* The NetworkRequest queryRequests builds from a row.
QueryRow(row) ==
  [id |-> row.id,
   type |-> row.type[1],
   method |-> IF IsNull(row.method) THEN "" ELSE row.method[1],
   url |-> IF IsNull(row.url) THEN << >> ELSE row.url[1],
   status |-> IF IsNull(row.status) \/ row.status[1] = << >> THEN 0
              ELSE TextToNumber(row.status[1]),
   headers |-> IF IsNull(row.headers) THEN {} ELSE JsonParse(row.headers[1]),
   responseHeaders |-> IF IsNull(row.responseHeaders) THEN {}
                       ELSE JsonParse(row.responseHeaders[1]),
   responseBody |-> IF IsNull(row.responseBody) THEN "" ELSE row.responseBody[1],
   responseSize |-> IF IsNull(row.responseSize) THEN 0 ELSE row.responseSize[1],
   body |-> row.body,
   timestamp |-> row.timestamp[1],
   encodedDataLength |-> row.encodedDataLength,
   error |-> IF IsNull(row.error) \/ row.error[1] = "" THEN JNull ELSE row.error]

\* JavaScript truthiness of an optional number, string and text.
NumTruthy(o) == ~IsNull(o) /\ o[1] # 0

StringTruthy(o) == ~IsNull(o) /\ o[1] # ""

CharsTruthy(o) == ~IsNull(o) /\ o[1] # << >>

\* The WHERE clause queryRequests builds from the truthy fields of query.
\* A comparison with a NULL column is not true.
WherePasses(row, query) ==
  /\ (StringTruthy(query.type) /\ query.type[1] # "all") => row.type = query.type
  /\ StringTruthy(query.method) => row.method = query.method
  /\ NumTruthy(query.status) =>
       row.status = Some(NumberToString(query.status[1]))
  /\ CharsTruthy(query.url) =>
       (~IsNull(row.url) /\ LikeContains(row.url[1], query.url[1]))
  /\ ~IsNull(query.startTime) =>
       ~TextLess(toISOString(row.timestamp[1]), toISOString(query.startTime[1]))
  /\ ~IsNull(query.endTime) =>
       ~TextLess(toISOString(query.endTime[1]), toISOString(row.timestamp[1]))
  /\ NumTruthy(query.minResponseSize) =>
       (~IsNull(row.responseSize) /\ row.responseSize[1] >= query.minResponseSize[1])
  /\ NumTruthy(query.maxResponseSize) =>
       (~IsNull(row.responseSize) /\ row.responseSize[1] <= query.maxResponseSize[1])
  /\ NumTruthy(query.minStatus) =>
       (~IsNull(row.status) /\ TextToNumber(row.status[1]) >= query.minStatus[1])
  /\ NumTruthy(query.maxStatus) =>
       (~IsNull(row.status) /\ TextToNumber(row.status[1]) <= query.maxStatus[1])
  /\ CharsTruthy(query.error) =>
       (~IsNull(row.error)
        /\ LikeContains(TextChars(row.error[1]), query.error[1]))

\* The column ORDER BY names: timestamp unless sortBy is given.
OrderColumn(query) ==
  IF StringTruthy(query.sortBy) THEN query.sortBy[1] ELSE "timestamp"

\* DESC for the default order; for sortBy, ascending unless sortOrder is desc.
OrderDescending(query) ==
  IF StringTruthy(query.sortBy) THEN query.sortOrder = Some("desc") ELSE TRUE

\* The value ORDER BY compares, as a sequence compared element by element:
\* NULL is empty, an INTEGER is one element, a TEXT is its characters.
OrderKey(row, column) ==
  LET text == IF column = "timestamp" THEN toISOString(row.timestamp[1])
              ELSE row.status[1]
  IN  IF IsNull(row[column]) THEN << >>
      ELSE IF column = "responseSize" THEN <<row.responseSize[1]>>
      ELSE [i \in 1..Len(text) |-> DigitValue(text[i])]

KeyLess(a, b) ==
  \/ \E i \in 1..Len(a) :
       /\ i <= Len(b)
       /\ \A k \in 1..(i - 1) : a[k] = b[k]
       /\ a[i] < b[i]
  \/ Len(a) < Len(b) /\ \A k \in 1..Len(a) : a[k] = b[k]

\* The orders in which ORDER BY may return a set of rows: rows with equal
\* keys come in an order SQL leaves open.
Orderings(selected, query) ==
  LET n == Cardinality(selected)
      key(row) == OrderKey(row, OrderColumn(query))
  IN  {s \in [1..n -> selected] :
         /\ \A i, j \in 1..n : i # j => s[i] # s[j]
         /\ \A i, j \in 1..n : i < j =>
              IF OrderDescending(query) THEN ~KeyLess(key(s[i]), key(s[j]))
              ELSE ~KeyLess(key(s[j]), key(s[i]))}

\* The statement is 'LIMIT ?' then 'OFFSET ?', each added when its field is
\* truthy; SQLite accepts OFFSET only after LIMIT.
StatementParses(query) == NumTruthy(query.offset) => NumTruthy(query.limit)

LimitOffset(ordered, query) ==
  LET skip == IF NumTruthy(query.offset) THEN query.offset[1] ELSE 0
      keep == IF NumTruthy(query.limit) THEN query.limit[1] ELSE Len(ordered)
      upto == IF skip + keep < Len(ordered) THEN skip + keep ELSE Len(ordered)
  IN  SubSeq(ordered, skip + 1, upto)

Returned(value) == [ok |-> TRUE, value |-> value]

Thrown(error) == [ok |-> FALSE, value |-> error]

\* What queryRequests may return: the statement fails to prepare, or it
\* returns the selected rows in one of the orders, cut by LIMIT and OFFSET.
queryRequests(table, query) ==
  IF ~StatementParses(query) THEN {Thrown("SqliteError")}
  ELSE {Returned([i \in 1..Len(LimitOffset(s, query)) |->
                    QueryRow(LimitOffset(s, query)[i])]) :
          s \in Orderings({x \in table : WherePasses(x, query)}, query)}

\* Mutant of clearOldRequests: one call deletes one old row at most.
clearOldRequests_OneAtATime(table, days, clock) ==
  LET cutoff == toISOString(clock - days * DayLength)
      old == {x \in table : TextLess(toISOString(x.timestamp[1]), cutoff)}
      first == IF old = {} THEN {} ELSE {CHOOSE x \in old : TRUE}
  IN  [rows |-> table \ first, changes |-> Cardinality(first)]

\* Mutant of clearOldRequests: a row as old as the cutoff is deleted too.
clearOldRequests_Inclusive(table, days, clock) ==
  LET cutoff == toISOString(clock - days * DayLength)
      old == {x \in table : ~TextLess(cutoff, toISOString(x.timestamp[1]))}
  IN  [rows |-> table \ old, changes |-> Cardinality(old)]

\* DELETE FROM network_requests WHERE timestamp < cutoff.toISOString()
clearOldRequests(table, days, clock) ==
  LET cutoff == toISOString(clock - days * DayLength)
      old == {x \in table : TextLess(toISOString(x.timestamp[1]), cutoff)}
  IN  [rows |-> table \ old, changes |-> Cardinality(old)]

\* The property a group's key names in the object the rows are reduced to,
\* acc[row.type] = row.count: the key NULL reaches JavaScript as null and
\* names the property "null".
TypeProperty(column) == IF IsNull(column) THEN "null" ELSE column[1]

\* acc[row.status] = row.count; a status is a text.
StatusProperty(column) ==
  IF IsNull(column) THEN <<"n", "u", "l", "l">> ELSE column[1]

\* SELECT column, COUNT(*) ... GROUP BY column, reduced to an object.  The
\* groups come sorted by key, NULL first: of two groups that name the same
\* property the one with the text key is assigned last.
GroupCounts(table, column, Property(_)) ==
  LET groups == {x[column] : x \in table}
      assigned(n) == CHOOSE g \in groups :
                       /\ Property(g) = n
                       /\ \A h \in groups : Property(h) = n => (h = g \/ IsNull(h))
  IN  [n \in {Property(g) : g \in groups} |->
         Cardinality({x \in table : x[column] = assigned(n)})]

\* Mutant of getRequestStats: the rows without a status are not counted by
\* status.
getRequestStats_SkipsNull(table) ==
  [totalCount |-> Cardinality(table),
   typeStats |-> GroupCounts(table, "type", TypeProperty),
   statusStats |-> GroupCounts({x \in table : ~IsNull(x.status)}, "status",
                               StatusProperty)]

getRequestStats(table) ==
  [totalCount |-> Cardinality(table),
   typeStats |-> GroupCounts(table, "type", TypeProperty),
   statusStats |-> GroupCounts(table, "status", StatusProperty)]

(***************************************************************************)
(* Actions of the BrowserMonitor.                                          *)
(***************************************************************************)
\* The prefix connect gives the listeners of an additional page.
TitlePrefix(title) == "[" \o title \o "] "

MainPrefix == ""

Prefixes == {MainPrefix} \cup {TitlePrefix(t) : t \in Titles}

\* A connection whose listeners carry this prefix is open.
Listening(prefix) ==
  \/ prefix = MainPrefix /\ mainListening
  \/ prefix \in orphans

\* What the step passes to the callback; the server's callback emits
\* 'network_request', and every push listener sends one network_update when
\* the transport slot is set.
Observe(op, key, arg, calls) ==
  /\ last' = [op |-> op, key |-> key, arg |-> arg,
              tracked |-> MapHas(networkRequests, key)]
  /\ cleared' = IF op = "requestWillBeSent" THEN cleared \ {key} ELSE cleared
  /\ emitted' = calls
  /\ pushed' = IF IsNull(transport) THEN 0 ELSE Len(calls) * streamListeners

\* A step that is no protocol event: it calls no subscriber.
QuietStep(op, arg) ==
  /\ last' = [op |-> op, key |-> "", arg |-> arg, tracked |-> FALSE]
  /\ emitted' = << >>
  /\ pushed' = 0

Quiet(op) == QuietStep(op, << >>) /\ UNCHANGED cleared

ApplyEvent(op, key, arg, result) ==
  /\ networkRequests' = result.table
  /\ Observe(op, key, arg, result.calls)
  /\ UNCHANGED <<requestFilter, networkCallback, client, connected, dbOpen,
                 mainListening, orphans, now, serverVars>>

RequestWillBeSentEvent(prefix, requestId, params) ==
  /\ Listening(prefix)
  /\ ApplyEvent("requestWillBeSent", RequestKey(prefix, requestId), params,
                requestWillBeSent(networkRequests, prefix, requestId, params, now))

ResponseReceivedEvent(prefix, requestId, response) ==
  /\ Listening(prefix)
  /\ ApplyEvent("responseReceived", RequestKey(prefix, requestId), response,
                responseReceived(networkRequests, requestFilter, networkCallback,
                                 prefix, requestId, response))

LoadingFinishedEvent(prefix, requestId, encodedDataLength) ==
  /\ Listening(prefix)
  /\ ApplyEvent("loadingFinished", RequestKey(prefix, requestId),
                encodedDataLength,
                loadingFinished(networkRequests, requestFilter, networkCallback,
                                prefix, requestId, encodedDataLength))

LoadingFailedEvent(prefix, requestId, errorText) ==
  /\ Listening(prefix)
  /\ ApplyEvent("loadingFailed", RequestKey(prefix, requestId), errorText,
                loadingFailed(networkRequests, requestFilter, networkCallback,
                              prefix, requestId, errorText))

SetNetworkCallback ==
  /\ networkCallback' = Some("emit")
  /\ Quiet("setNetworkCallback")
  /\ UNCHANGED <<networkRequests, requestFilter, client, connected, dbOpen,
                 mainListening, orphans, now, serverVars>>

SetRequestFilter(filter) ==
  /\ requestFilter' = NewFilter(filter)
  /\ QuietStep("setRequestFilter", filter)
  /\ UNCHANGED cleared
  /\ UNCHANGED <<networkRequests, networkCallback, client, connected, dbOpen,
                 mainListening, orphans, now, serverVars>>

\* How a call of connect ends.
ConnectOutcomes == {"listFail", "noTarget", "cdpFail", "enableFail", "ok"}

(* connect.  The target list, the main connection and the domain enabling  *)
(* are the browser's; `outcome' is how far the call gets and `added' the    *)
(* titles of the additional pages whose connection succeeded.  A connection *)
(* that client referred to before the call is not closed: it stays open     *)
(* with its listeners.                                                      *)
ConnectEffect(outcome, added) ==
  IF outcome \in {"listFail", "noTarget", "cdpFail"}
  THEN UNCHANGED <<client, connected, mainListening, orphans>>
  ELSE /\ client' = Some("main")
       /\ connected' = TRUE
       /\ mainListening' = (outcome = "ok")
       /\ orphans' = orphans
                       \cup (IF mainListening THEN {MainPrefix} ELSE {})
                       \cup (IF outcome = "ok"
                             THEN {TitlePrefix(t) : t \in added} ELSE {})

Connect(outcome, added) ==
  /\ ConnectEffect(outcome, added)
  /\ QuietStep("connect", outcome)
  /\ UNCHANGED cleared
  /\ UNCHANGED <<networkRequests, requestFilter, networkCallback, dbOpen, now,
                 serverVars>>

\* Mutant of DisconnectEffect: the live table is not cleared.
DisconnectEffect_KeepsTable ==
  /\ client' = JNull
  /\ mainListening' = FALSE
  /\ connected' = FALSE
  /\ dbOpen' = FALSE
  /\ UNCHANGED <<networkRequests, requestFilter, networkCallback, orphans>>

(* disconnect closes the connection client refers to, and no other.        *)
DisconnectEffect ==
  /\ client' = JNull
  /\ mainListening' = FALSE
  /\ connected' = FALSE
  /\ networkRequests' = << >>
  /\ dbOpen' = FALSE
  /\ UNCHANGED <<requestFilter, networkCallback, orphans>>

Disconnect ==
  /\ DisconnectEffect
  /\ QuietStep("disconnect", << >>)
  /\ cleared' = cleared \cup MapKeys(networkRequests)
  /\ UNCHANGED <<now, serverVars>>

\* Time passes.
Tick ==
  /\ now < MaxTime
  /\ now' = now + 1
  /\ Quiet("tick")
  /\ UNCHANGED <<monitorVars, serverVars>>

(***************************************************************************)
(* The store operations of the BrowserMonitor: saveRequest, queryRequests, *)
(* getRequestStats and clearOldRequests hand the call to requestDb.  On a closed handle    *)
(* better-sqlite3 throws when the statement is prepared.                   *)
(***************************************************************************)
NotOpen == Thrown("TypeError: The database connection is not open")

\* Mutant of StoreStep: a store operation unregisters the subscriber.
StoreStep_DropsSubscriber(op, arg) ==
  /\ QuietStep(op, arg)
  /\ priorPrune' = IF last.op = "clearOldRequests" /\ returned.ok
                   THEN Some([days |-> last.arg, changes |-> returned.value])
                   ELSE JNull
  /\ networkCallback' = JNull
  /\ UNCHANGED <<cleared, networkRequests, requestFilter, client, connected,
                 dbOpen, mainListening, orphans, now, serverVars>>

\* A call of a store operation: no subscriber is called, nothing of the
\* monitor changes.
StoreStep(op, arg) ==
  /\ QuietStep(op, arg)
  /\ priorPrune' = IF last.op = "clearOldRequests" /\ returned.ok
                   THEN Some([days |-> last.arg, changes |-> returned.value])
                   ELSE JNull
  /\ UNCHANGED <<cleared, monitorVars, now, serverVars>>

SaveRequest(request) ==
  /\ rows' = IF dbOpen THEN saveRequest(rows, request) ELSE rows
  /\ returned' = IF dbOpen THEN Returned(<< >>) ELSE NotOpen
  /\ replaced' = IF dbOpen /\ \E x \in rows : x.id = request.id
                 THEN Some(CHOOSE x \in rows : x.id = request.id) ELSE JNull
  /\ StoreStep("saveRequest", request)

QueryRequests(query) ==
  /\ returned' \in (IF dbOpen THEN queryRequests(rows, query) ELSE {NotOpen})
  /\ replaced' = JNull
  /\ StoreStep("queryRequests", query)
  /\ UNCHANGED rows

ClearOldRequests(days) ==
  /\ rows' = IF dbOpen THEN clearOldRequests(rows, days, now).rows ELSE rows
  /\ returned' = IF dbOpen
                 THEN Returned(clearOldRequests(rows, days, now).changes)
                 ELSE NotOpen
  /\ replaced' = JNull
  /\ StoreStep("clearOldRequests", days)

GetRequestStats ==
  /\ returned' = IF dbOpen THEN Returned(getRequestStats(rows)) ELSE NotOpen
  /\ replaced' = JNull
  /\ StoreStep("getRequestStats", << >>)
  /\ UNCHANGED rows

\* getActiveNetworkRequests: the records of the live table.
GetActiveNetworkRequests ==
  /\ QuietStep("getActiveNetworkRequests",
               getActiveNetworkRequests(networkRequests))
  /\ UNCHANGED <<cleared, monitorVars, now, serverVars, storeVars>>

(***************************************************************************)
(* Spec: one BrowserMonitor, driven through its public methods and by the  *)
(* protocol events of its connections.                                     *)
(***************************************************************************)
InitMonitor ==
  /\ networkRequests = << >>
  /\ requestFilter = [urlPattern |-> JNull, types |-> JNull]
  /\ networkCallback = JNull
  /\ client = JNull
  /\ connected = FALSE
  /\ dbOpen = TRUE
  /\ mainListening = FALSE
  /\ orphans = {}
  /\ now = 0
  /\ emitted = << >>
  /\ pushed = 0
  /\ last = [op |-> "new", key |-> "", arg |-> << >>, tracked |-> FALSE]
  /\ cleared = {}

InitServerIdle ==
  /\ transport = JNull
  /\ sseOpen = {}
  /\ streamListeners = 0

NoTwin == [networkRequests |-> << >>,
           requestFilter |-> [urlPattern |-> JNull, types |-> JNull],
           networkCallback |-> JNull]

\* A store with no row, on which no operation has been called.
NoReturn == [ok |-> TRUE, value |-> << >>]

InitStoreEmpty ==
  /\ rows = {}
  /\ returned = NoReturn
  /\ replaced = JNull
  /\ priorPrune = JNull

InitHarnessIdle ==
  /\ script = {}
  /\ delivered = {}
  /\ twin = NoTwin

Init ==
  /\ InitMonitor
  /\ InitServerIdle
  /\ InitHarnessIdle
  /\ InitStoreEmpty

\* The events of the main page's connections (no additional page target).
Next ==
  \/ \E r \in RequestIds, s \in StartParams :
       RequestWillBeSentEvent(MainPrefix, r, s) /\ UNCHANGED <<harnessVars, storeVars>>
  \/ \E r \in RequestIds, s \in ResponseParams :
       ResponseReceivedEvent(MainPrefix, r, s) /\ UNCHANGED <<harnessVars, storeVars>>
  \/ \E r \in RequestIds, n \in FinishedParams :
       LoadingFinishedEvent(MainPrefix, r, n) /\ UNCHANGED <<harnessVars, storeVars>>
  \/ \E r \in RequestIds, e \in FailedParams :
       LoadingFailedEvent(MainPrefix, r, e) /\ UNCHANGED <<harnessVars, storeVars>>
  \/ SetNetworkCallback /\ UNCHANGED <<harnessVars, storeVars>>
  \/ \E f \in FilterInputs : SetRequestFilter(f) /\ UNCHANGED <<harnessVars, storeVars>>
  \/ \E o \in ConnectOutcomes : Connect(o, {}) /\ UNCHANGED <<harnessVars, storeVars>>
  \/ Disconnect /\ UNCHANGED <<harnessVars, storeVars>>

Spec == Init /\ [][Next]_vars

(***************************************************************************)
(* SpecLifecycle: the life of one request.  A connected monitor receives   *)
(* requestWillBeSent for one identifier and then, in any order, the events *)
(* of `script': at most one responseReceived, one loadingFinished and one  *)
(* loadingFailed, each with any payload.                                   *)
(***************************************************************************)
ScriptEvents ==
  {[kind |-> "response", response |-> s] : s \in ResponseParams}
    \cup {[kind |-> "finished", encodedDataLength |-> n] : n \in FinishedParams}
    \cup {[kind |-> "failed", errorText |-> e] : e \in FailedParams}

Scripts ==
  {S \in SUBSET ScriptEvents :
     \A a \in S, b \in S : a.kind = b.kind => a = b}

LifecycleId == "r1"

LifecycleKey == RequestKey(MainPrefix, LifecycleId)

InitLifecycle ==
  /\ networkRequests = << >>
  /\ requestFilter \in {NewFilter(f) : f \in FilterInputs}
  /\ networkCallback \in {JNull, Some("emit")}
  /\ client = Some("main")
  /\ connected = TRUE
  /\ dbOpen = TRUE
  /\ mainListening = TRUE
  /\ orphans = {}
  /\ now = 0
  /\ emitted = << >>
  /\ pushed = 0
  /\ last = [op |-> "new", key |-> "", arg |-> << >>, tracked |-> FALSE]
  /\ cleared = {}
  /\ InitServerIdle
  /\ script \in Scripts
  /\ delivered = {}
  /\ twin = NoTwin
  /\ InitStoreEmpty

LifecycleStart(params) ==
  /\ ~MapHas(networkRequests, LifecycleKey)
  /\ RequestWillBeSentEvent(MainPrefix, LifecycleId, params)
  /\ UNCHANGED <<harnessVars, storeVars>>

LifecycleDeliver(e) ==
  /\ MapHas(networkRequests, LifecycleKey)
  /\ e \in script
  /\ script' = script \ {e}
  /\ delivered' = delivered \cup {e}
  /\ UNCHANGED <<twin, storeVars>>
  /\ CASE e.kind = "response" ->
            ResponseReceivedEvent(MainPrefix, LifecycleId, e.response)
       [] e.kind = "finished" ->
            LoadingFinishedEvent(MainPrefix, LifecycleId, e.encodedDataLength)
       [] e.kind = "failed" ->
            LoadingFailedEvent(MainPrefix, LifecycleId, e.errorText)

NextLifecycle ==
  \/ Tick /\ UNCHANGED <<harnessVars, storeVars>>
  \/ \E s \in StartParams : LifecycleStart(s)
  \/ \E e \in ScriptEvents : LifecycleDeliver(e)

SpecLifecycle == InitLifecycle /\ [][NextLifecycle]_vars

\* The events of one kind that the scripted run has delivered.
DeliveredOf(kind) == {e \in delivered : e.kind = kind}

\* The error the record holds after loadingFailed with this text.
ErrorOf(errorText) == IF errorText = "" THEN UnknownError ELSE errorText

\* The record of the scripted request holds the fields of the delivered
\* response and finished events, and the defaults 0 / empty / 0 otherwise.
LifecycleResponseFields(r) ==
  /\ \A e \in DeliveredOf("response") :
       r.status = e.response.status /\ r.responseHeaders = e.response.headers
  /\ DeliveredOf("response") = {} => r.status = 0 /\ r.responseHeaders = {}
  /\ \A e \in DeliveredOf("finished") : r.responseSize = e.encodedDataLength
  /\ DeliveredOf("finished") = {} => r.responseSize = 0

\* C1 (as claimed): after requestWillBeSent and any subset, in any order, of
\* responseReceived, loadingFinished and loadingFailed, the record holds the
\* status and responseHeaders of the response event, the size of the finished
\* event and the error text of the failed event, and every field whose event
\* was not delivered holds its default: status 0, responseHeaders empty,
\* responseSize 0, error null.
C1_FieldsAreUnionOfDelivered ==
  MapHas(networkRequests, LifecycleKey) =>
    LET r == MapGet(networkRequests, LifecycleKey)
    IN  /\ LifecycleResponseFields(r)
        /\ \A e \in DeliveredOf("failed") : r.error = Some(ErrorOf(e.errorText))
        /\ DeliveredOf("failed") = {} => r.error = JNull

\* The lifecycle with the default the handler sets: error is the empty string
\* until loadingFailed.
LifecycleFieldsWithEmptyError ==
  MapHas(networkRequests, LifecycleKey) =>
    LET r == MapGet(networkRequests, LifecycleKey)
    IN  /\ LifecycleResponseFields(r)
        /\ \A e \in DeliveredOf("failed") : r.error = Some(ErrorOf(e.errorText))
        /\ DeliveredOf("failed") = {} => r.error = Some("")

(***************************************************************************)
(* SpecTable: a connected monitor whose main page has two requests in      *)
(* flight.  The events of both arrive in any order; the filter changes     *)
(* between them.                                                           *)
(***************************************************************************)
TableIds == {"r1", "r2"}

TableStartParams == {s \in StartParams : s.method = "GET"}

TableResponseParams == {s \in ResponseParams : s.status = 200}

TableFinishedParams == {128}

TableFailedParams == {"net::ERR_FAILED"}

TableFilters ==
  {f \in FilterInputs :
     \/ IsNull(f.urlPattern) /\ f.types \in {JNull, Some({"xhr"})}
     \/ f.urlPattern = Some(PatEscDot) /\ IsNull(f.types)}

InitTable ==
  /\ networkRequests = << >>
  /\ requestFilter = [urlPattern |-> JNull, types |-> JNull]
  /\ networkCallback \in {JNull, Some("emit")}
  /\ client = Some("main")
  /\ connected = TRUE
  /\ dbOpen = TRUE
  /\ mainListening = TRUE
  /\ orphans = {}
  /\ now = 0
  /\ emitted = << >>
  /\ pushed = 0
  /\ last = [op |-> "connect", key |-> "", arg |-> << >>, tracked |-> FALSE]
  /\ cleared = {}
  /\ InitServerIdle
  /\ InitHarnessIdle
  /\ InitStoreEmpty

NextTable ==
  \/ \E r \in TableIds, s \in TableStartParams :
       RequestWillBeSentEvent(MainPrefix, r, s) /\ UNCHANGED <<harnessVars, storeVars>>
  \/ \E r \in TableIds, s \in TableResponseParams :
       ResponseReceivedEvent(MainPrefix, r, s) /\ UNCHANGED <<harnessVars, storeVars>>
  \/ \E r \in TableIds, n \in TableFinishedParams :
       LoadingFinishedEvent(MainPrefix, r, n) /\ UNCHANGED <<harnessVars, storeVars>>
  \/ \E r \in TableIds, e \in TableFailedParams :
       LoadingFailedEvent(MainPrefix, r, e) /\ UNCHANGED <<harnessVars, storeVars>>
  \/ \E f \in TableFilters : SetRequestFilter(f) /\ UNCHANGED <<harnessVars, storeVars>>

SpecTable == InitTable /\ [][NextTable]_vars

\* The operations that merge an event into a tracked record.
MergeOps == {"responseReceived", "loadingFinished", "loadingFailed"}

\* C2: a responseReceived, loadingFinished or loadingFailed event whose key is
\* not in the live table leaves the table as it was, keys and records, and
\* calls no subscriber.
C2_UnknownIdIsNoOp ==
  [][(last'.op \in MergeOps /\ ~last'.tracked) =>
       (networkRequests' = networkRequests /\ emitted' = << >> /\ pushed' = 0)]_vars

\* An event for an unknown key has arrived while another request is tracked.
C2_Witness ==
  /\ last.op \in MergeOps
  /\ ~last.tracked
  /\ networkRequests # << >>

\* C3: disconnect leaves getActiveNetworkRequests empty, and a later
\* responseReceived, loadingFinished or loadingFailed event for a key that was
\* tracked before the disconnect finds no record: the table is left as it was,
\* without that key, and no subscriber is called.
C3_StopClearsAndForgets ==
  [][/\ last'.op = "disconnect" => getActiveNetworkRequests(networkRequests') = << >>
     /\ (last'.op \in MergeOps /\ last'.key \in cleared) =>
          /\ networkRequests' = networkRequests
          /\ ~MapHas(networkRequests', last'.key)
          /\ emitted' = << >>
          /\ pushed' = 0]_vars

\* After a disconnect that dropped a record, a still-open connection has
\* delivered a merge event for the dropped key to a monitor with a subscriber.
C3_Witness ==
  /\ last.op \in MergeOps
  /\ last.key \in cleared
  /\ ~connected
  /\ ~IsNull(networkCallback)
  /\ getActiveNetworkRequests(networkRequests) = << >>

(***************************************************************************)
(* SpecServer: the BrowserMonitorServer.  Its constructor registers the    *)
(* network callback; a client opens SSE links, calls the start_monitoring  *)
(* and stop_monitoring tools and reads the network_stream resource, while  *)
(* the main page's connection delivers protocol events.                    *)
(***************************************************************************)
\* The SSE links a client may open.
SseIds == {1, 2}

\* start_monitoring: connect, then setRequestFilter with
\* {urlPattern: params.urlPattern ?? null, types: params.types ?? null};
\* when connect throws, the filter is not set.
StartMonitoring(params, outcome) ==
  /\ ConnectEffect(outcome, {})
  /\ requestFilter' = IF outcome = "ok" THEN NewFilter(params) ELSE requestFilter
  /\ QuietStep("start_monitoring", params)
  /\ UNCHANGED cleared
  /\ UNCHANGED <<networkRequests, networkCallback, dbOpen, now, serverVars>>

\* stop_monitoring: disconnect.
StopMonitoring ==
  /\ DisconnectEffect
  /\ QuietStep("stop_monitoring", << >>)
  /\ cleared' = cleared \cup MapKeys(networkRequests)
  /\ UNCHANGED <<now, serverVars>>

\* A read of monitor://network/stream: the handler registers a collecting and
\* a pushing listener on 'network_request' and answers with the (still
\* empty) list; neither listener is ever removed.
ReadNetworkStream ==
  /\ streamListeners < MaxReads
  /\ streamListeners' = streamListeners + 1
  /\ Quiet("network_stream")
  /\ UNCHANGED <<monitorVars, now, transport, sseOpen>>

\* GET /sse: handleSSE stores a new transport in the slot.
HandleSSE(id) ==
  /\ id \notin sseOpen
  /\ sseOpen' = sseOpen \cup {id}
  /\ transport' = Some(id)
  /\ Quiet("handleSSE")
  /\ UNCHANGED <<monitorVars, now, streamListeners>>

\* An SSE response closes: the slot is set to null and 'client_disconnect'
\* makes the monitor disconnect.
SseClose(id) ==
  /\ id \in sseOpen
  /\ sseOpen' = sseOpen \ {id}
  /\ transport' = JNull
  /\ DisconnectEffect
  /\ QuietStep("sseClose", id)
  /\ cleared' = cleared \cup MapKeys(networkRequests)
  /\ UNCHANGED <<now, streamListeners>>

InitServer ==
  /\ networkRequests = << >>
  /\ requestFilter = [urlPattern |-> JNull, types |-> JNull]
  /\ networkCallback = Some("emit")
  /\ client = JNull
  /\ connected = FALSE
  /\ dbOpen = TRUE
  /\ mainListening = FALSE
  /\ orphans = {}
  /\ now = 0
  /\ emitted = << >>
  /\ pushed = 0
  /\ last = [op |-> "new", key |-> "", arg |-> << >>, tracked |-> FALSE]
  /\ cleared = {}
  /\ InitServerIdle
  /\ InitHarnessIdle
  /\ InitStoreEmpty

ServerOutcomes == {"noTarget", "ok"}

NextServer ==
  \/ \E r \in RequestIds, s \in TableStartParams :
       RequestWillBeSentEvent(MainPrefix, r, s) /\ UNCHANGED <<harnessVars, storeVars>>
  \/ \E r \in RequestIds, s \in TableResponseParams :
       ResponseReceivedEvent(MainPrefix, r, s) /\ UNCHANGED <<harnessVars, storeVars>>
  \/ \E r \in RequestIds, n \in TableFinishedParams :
       LoadingFinishedEvent(MainPrefix, r, n) /\ UNCHANGED <<harnessVars, storeVars>>
  \/ \E r \in RequestIds, e \in TableFailedParams :
       LoadingFailedEvent(MainPrefix, r, e) /\ UNCHANGED <<harnessVars, storeVars>>
  \/ \E f \in TableFilters, o \in ServerOutcomes :
       StartMonitoring(f, o) /\ UNCHANGED <<harnessVars, storeVars>>
  \/ StopMonitoring /\ UNCHANGED <<harnessVars, storeVars>>
  \/ ReadNetworkStream /\ UNCHANGED <<harnessVars, storeVars>>
  \/ \E i \in SseIds : HandleSSE(i) /\ UNCHANGED <<harnessVars, storeVars>>
  \/ \E i \in SseIds : SseClose(i) /\ UNCHANGED <<harnessVars, storeVars>>

SpecServer == InitServer /\ [][NextServer]_vars

\* C4 (as claimed): one merge event (responseReceived, loadingFinished or
\* loadingFailed applied to a tracked, filter-passing record) causes at most
\* one network_update push to the connected client, whatever start_monitoring
\* calls, stop_monitoring calls and network_stream reads came before.
C4_AtMostOnePushPerMerge ==
  (last.op \in MergeOps /\ last.tracked) => pushed <= 1

(***************************************************************************)
(* The filter claims, under Spec.  They are about the state right after a  *)
(* merge event on a tracked record: the filter and the callback are those  *)
(* the handler read, and the record is the merged one.                     *)
(***************************************************************************)
\* The last step merged an event into a tracked record.
MergedTracked == last.op \in MergeOps /\ last.tracked

\* The record the last event was merged into.
LastRecord == MapGet(networkRequests, last.key)

\* A subscriber is registered.
Subscribed == ~IsNull(networkCallback)

\* The last event's fields are in the record.
MergeVisible ==
  CASE last.op = "responseReceived" ->
         /\ LastRecord.status = last.arg.status
         /\ LastRecord.responseHeaders = last.arg.headers
    [] last.op = "loadingFinished" -> LastRecord.responseSize = last.arg
    [] last.op = "loadingFailed" -> LastRecord.error = Some(ErrorOf(last.arg))

\* C5 (as claimed): with a filter that has a valid URL pattern, a merge event
\* on a tracked record calls the subscriber exactly once when the record's URL
\* matches the pattern as a regular expression, and not at all otherwise.
C5_AnyValidPatternDecides ==
  (/\ MergedTracked
   /\ Subscribed
   /\ ~IsNull(requestFilter.urlPattern)
   /\ RegExpValid(requestFilter.urlPattern[1])) =>
    emitted = IF RegExpTest(requestFilter.urlPattern[1], LastRecord.url)
              THEN <<LastRecord>> ELSE << >>

\* C5 (amended): with a filter that has a valid, non-empty URL pattern, a merge
\* event on a tracked record calls the subscriber exactly once when the
\* record's URL matches the pattern as a regular expression, and not at all
\* otherwise.
C5_ValidPatternDecides ==
  (/\ MergedTracked
   /\ Subscribed
   /\ PatternTruthy(requestFilter.urlPattern)
   /\ RegExpValid(requestFilter.urlPattern[1])) =>
    emitted = IF RegExpTest(requestFilter.urlPattern[1], LastRecord.url)
              THEN <<LastRecord>> ELSE << >>

\* A record whose URL matches the pattern a\.c has been delivered once.
C5_Witness ==
  /\ MergedTracked
  /\ Subscribed
  /\ requestFilter.urlPattern = Some(PatEscDot)
  /\ LastRecord.url = UrlDot
  /\ emitted = <<LastRecord>>

\* C6: with a URL pattern that is no valid regular expression, a merge event
\* calls no subscriber, whatever the record, and its fields are merged into
\* the live table all the same; this holds for every event that follows.
C6_InvalidPatternRejectsAll ==
  (/\ MergedTracked
   /\ PatternTruthy(requestFilter.urlPattern)
   /\ ~RegExpValid(requestFilter.urlPattern[1])) =>
    /\ emitted = << >>
    /\ pushed = 0
    /\ MergeVisible

\* Under the invalid pattern [ and with a subscriber registered, a
\* loadingFinished event has been merged and not delivered.
C6_Witness ==
  /\ MergedTracked
  /\ Subscribed
  /\ requestFilter.urlPattern = Some(PatInvalid)
  /\ last.op = "loadingFinished"
  /\ LastRecord.responseSize = 128
  /\ emitted = << >>

\* C7 (as claimed): when the filter has both a URL pattern and a type set, the
\* URL pattern alone decides: the record is delivered exactly when its URL
\* matches, whatever its type.
C7_AnyPatternOverridesTypes ==
  (/\ MergedTracked
   /\ Subscribed
   /\ ~IsNull(requestFilter.urlPattern)
   /\ ~IsNull(requestFilter.types)) =>
    emitted = IF /\ RegExpValid(requestFilter.urlPattern[1])
                 /\ RegExpTest(requestFilter.urlPattern[1], LastRecord.url)
              THEN <<LastRecord>> ELSE << >>

\* C7 (amended): when the filter has both a non-empty URL pattern and a type
\* set, the URL pattern alone decides: the record is delivered exactly when
\* its URL matches, whatever its type.
C7_PatternOverridesTypes ==
  (/\ MergedTracked
   /\ Subscribed
   /\ PatternTruthy(requestFilter.urlPattern)
   /\ ~IsNull(requestFilter.types)) =>
    emitted = IF /\ RegExpValid(requestFilter.urlPattern[1])
                 /\ RegExpTest(requestFilter.urlPattern[1], LastRecord.url)
              THEN <<LastRecord>> ELSE << >>

\* A record whose URL matches and whose type is not in the set has been
\* delivered.
C7_Witness ==
  /\ MergedTracked
  /\ Subscribed
  /\ requestFilter = [urlPattern |-> Some(PatEscDot), types |-> Some({"xhr"})]
  /\ LastRecord.url = UrlDot
  /\ LastRecord.type = "document"
  /\ emitted = <<LastRecord>>

\* C8: with a type set and no URL pattern, a merged record is delivered
\* exactly when its type is in the set; with neither, every merged record is
\* delivered.
C8_TypesDecideWithoutPattern ==
  (/\ MergedTracked
   /\ Subscribed
   /\ ~PatternTruthy(requestFilter.urlPattern)) =>
    emitted = IF \/ IsNull(requestFilter.types)
                 \/ LastRecord.type \in requestFilter.types[1]
              THEN <<LastRecord>> ELSE << >>

\* With the type set {xhr} and no pattern, a document request has been merged
\* and not delivered.
C8_Witness ==
  /\ MergedTracked
  /\ Subscribed
  /\ requestFilter = [urlPattern |-> JNull, types |-> Some({"xhr"})]
  /\ LastRecord.type = "document"
  /\ emitted = << >>

\* C10: setRequestFilter stores exactly the filter it is given (a field the
\* caller omits becomes null), calls no subscriber and leaves the live table
\* as it was; a merge event is delivered according to the filter in force
\* when it arrives.
C10_SetFilterReplaces ==
  [][/\ last'.op = "setRequestFilter" =>
          /\ requestFilter' = [urlPattern |-> last'.arg.urlPattern,
                               types |-> last'.arg.types]
          /\ emitted' = << >>
          /\ pushed' = 0
          /\ networkRequests' = networkRequests
     /\ (last'.op \in MergeOps /\ last'.tracked /\ ~IsNull(networkCallback)) =>
          emitted' = IF shouldProcessRequest(requestFilter,
                                              MapGet(networkRequests', last'.key))
                     THEN <<MapGet(networkRequests', last'.key)>> ELSE << >>]_vars

\* setRequestFilter has been called with a pattern and no type set while a
\* record is tracked.
C10_Witness ==
  /\ last.op = "setRequestFilter"
  /\ last.arg = [urlPattern |-> Some(PatEscDot), types |-> JNull]
  /\ requestFilter = [urlPattern |-> Some(PatEscDot), types |-> JNull]
  /\ networkRequests # << >>

(***************************************************************************)
(* SpecPair: two monitors receive the same protocol events and the same    *)
(* connect and disconnect calls; the filter and the subscriber of each are *)
(* set independently.  `twin' is the second monitor.                       *)
(***************************************************************************)
PairFilters == TableFilters \cup {[urlPattern |-> Some(PatInvalid), types |-> JNull]}

InitPair ==
  /\ InitMonitor
  /\ InitServerIdle
  /\ InitHarnessIdle
  /\ InitStoreEmpty

TwinTable(table) ==
  /\ twin' = [twin EXCEPT !.networkRequests = table]
  /\ UNCHANGED <<script, delivered, storeVars>>

PairRequestWillBeSent(requestId, params) ==
  /\ RequestWillBeSentEvent(MainPrefix, requestId, params)
  /\ TwinTable(requestWillBeSent(twin.networkRequests, MainPrefix, requestId,
                                 params, now).table)

PairResponseReceived(requestId, response) ==
  /\ ResponseReceivedEvent(MainPrefix, requestId, response)
  /\ TwinTable(responseReceived(twin.networkRequests, twin.requestFilter,
                                twin.networkCallback, MainPrefix, requestId,
                                response).table)

PairLoadingFinished(requestId, encodedDataLength) ==
  /\ LoadingFinishedEvent(MainPrefix, requestId, encodedDataLength)
  /\ TwinTable(loadingFinished(twin.networkRequests, twin.requestFilter,
                               twin.networkCallback, MainPrefix, requestId,
                               encodedDataLength).table)

PairLoadingFailed(requestId, errorText) ==
  /\ LoadingFailedEvent(MainPrefix, requestId, errorText)
  /\ TwinTable(loadingFailed(twin.networkRequests, twin.requestFilter,
                             twin.networkCallback, MainPrefix, requestId,
                             errorText).table)

PairConnect == Connect("ok", {}) /\ UNCHANGED <<harnessVars, storeVars>>

PairDisconnect == Disconnect /\ TwinTable(<< >>)

\* setRequestFilter on the second monitor.
TwinSetRequestFilter(filter) ==
  /\ twin' = [twin EXCEPT !.requestFilter = NewFilter(filter)]
  /\ QuietStep("twinSetRequestFilter", filter)
  /\ UNCHANGED <<monitorVars, now, serverVars, cleared, script, delivered,
                 storeVars>>

\* setNetworkCallback on the second monitor.
TwinSetNetworkCallback ==
  /\ twin' = [twin EXCEPT !.networkCallback = Some("emit")]
  /\ Quiet("twinSetNetworkCallback")
  /\ UNCHANGED <<monitorVars, now, serverVars, script, delivered, storeVars>>

NextPair ==
  \/ \E r \in RequestIds, s \in TableStartParams : PairRequestWillBeSent(r, s)
  \/ \E r \in RequestIds, s \in ResponseParams : PairResponseReceived(r, s)
  \/ \E r \in RequestIds, n \in TableFinishedParams : PairLoadingFinished(r, n)
  \/ \E r \in RequestIds, e \in TableFailedParams : PairLoadingFailed(r, e)
  \/ PairConnect
  \/ PairDisconnect
  \/ SetNetworkCallback /\ UNCHANGED <<harnessVars, storeVars>>
  \/ \E f \in PairFilters : SetRequestFilter(f) /\ UNCHANGED <<harnessVars, storeVars>>
  \/ TwinSetNetworkCallback
  \/ \E f \in PairFilters : TwinSetRequestFilter(f)

SpecPair == InitPair /\ [][NextPair]_vars

\* C9: two monitors that receive the same events and differ only in their
\* filter and in whether a subscriber is registered have identical live
\* tables, so getActiveNetworkRequests returns the same records for both,
\* those the filter rejects included.
C9_TableIndependentOfFilter ==
  /\ twin.networkRequests = networkRequests
  /\ getActiveNetworkRequests(twin.networkRequests)
       = getActiveNetworkRequests(networkRequests)

\* A response has been merged into a record that the first monitor's filter
\* rejects and the second monitor, with another filter and a subscriber,
\* delivers; the record is in the first monitor's table with the response.
C9_Witness ==
  /\ last.op = "responseReceived"
  /\ last.tracked
  /\ Subscribed
  /\ requestFilter # twin.requestFilter
  /\ ~shouldProcessRequest(requestFilter, LastRecord)
  /\ shouldProcessRequest(twin.requestFilter, LastRecord)
  /\ ~IsNull(twin.networkCallback)
  /\ emitted = << >>
  /\ LastRecord.status = 404
  /\ LastRecord \in {getActiveNetworkRequests(networkRequests)[i] :
                       i \in 1..Len(getActiveNetworkRequests(networkRequests))}

(***************************************************************************)
(* Starting and stopping, under Spec.                                      *)
(***************************************************************************)
\* disconnect has no precondition: it can be called in every state.
StopAlwaysPossible == ENABLED Disconnect

\* What disconnect itself resets: the client reference, the flag, the table.
StopResetsMonitorFields ==
  last.op = "disconnect" =>
    (client = JNull /\ ~connected /\ networkRequests = << >>)

\* C11: stopTracking succeeds in every state, and after it returns the system
\* is not tracking: no connection is held (none is open with listeners), the
\* connected flag is false and the live table is empty.
C11_StopLeavesNothingHeld ==
  /\ StopAlwaysPossible
  /\ last.op = "disconnect" =>
       /\ client = JNull
       /\ ~connected
       /\ networkRequests = << >>
       /\ \A prefix \in Prefixes : ~Listening(prefix)

\* C13: a connect call that fails, at whatever step, leaves the connection,
\* the connected flag, the registered listeners, the live table and the
\* filter as they were before the call.
C13_FailedStartChangesNothing ==
  [][(last'.op = "connect" /\ last'.arg # "ok") =>
       /\ client' = client
       /\ connected' = connected
       /\ mainListening' = mainListening
       /\ orphans' = orphans
       /\ networkRequests' = networkRequests
       /\ requestFilter' = requestFilter]_vars

\* A connect call that fails before the main connection is opened changes
\* nothing.
FailureBeforeConnectionChangesNothing ==
  [][(last'.op = "connect" /\ last'.arg \in {"listFail", "noTarget", "cdpFail"}) =>
       UNCHANGED <<monitorVars>>]_vars

(***************************************************************************)
(* SpecStore: the request store of a monitor that is never stopped.        *)
(* Records are saved, queried and cleared while the days pass.             *)
(***************************************************************************)
\* The last day of the calendar.
MaxDay == 2

\* A record whose response has arrived, with a body.
SavedDocument ==
  [id |-> "r1", timestamp |-> 0, method |-> "GET", url |-> UrlDot,
   headers |-> {}, type |-> "document", status |-> Some(200),
   responseHeaders |-> JsonHeaders, responseSize |-> 128,
   responseBody |-> Some("body"), body |-> JNull,
   encodedDataLength |-> Some(128), error |-> JNull]

\* A record of the same identifier that knows no status, body or length.
SavedDocumentAgain ==
  [id |-> "r1", timestamp |-> 2, method |-> "GET", url |-> UrlDot,
   headers |-> {}, type |-> "document", status |-> JNull,
   responseHeaders |-> {}, responseSize |-> 0,
   responseBody |-> JNull, body |-> JNull,
   encodedDataLength |-> JNull, error |-> JNull]

\* A request that failed.
SavedFailure ==
  [id |-> "r2", timestamp |-> 1, method |-> "POST", url |-> UrlAbc,
   headers |-> JsonHeaders, type |-> "xhr", status |-> Some(404),
   responseHeaders |-> {}, responseSize |-> 0,
   responseBody |-> JNull, body |-> Some("body"),
   encodedDataLength |-> JNull, error |-> Some("net::ERR_FAILED")]

\* A record as the live table holds it right after requestWillBeSent.
SavedStarted ==
  [id |-> "r2", timestamp |-> 2, method |-> "POST", url |-> UrlAbc,
   headers |-> JsonHeaders, type |-> "xhr", status |-> Some(0),
   responseHeaders |-> {}, responseSize |-> 0,
   responseBody |-> JNull, body |-> JNull,
   encodedDataLength |-> JNull, error |-> Some("")]

SavedServerError ==
  [id |-> "r3", timestamp |-> 2, method |-> "GET", url |-> UrlAbc,
   headers |-> {}, type |-> "xhr", status |-> Some(500),
   responseHeaders |-> JsonHeaders, responseSize |-> 256,
   responseBody |-> Some("body"), body |-> JNull,
   encodedDataLength |-> Some(256), error |-> JNull]

SaveInputs ==
  {SavedDocument, SavedDocumentAgain, SavedFailure, SavedStarted,
   SavedServerError}

\* A RequestQuery with no field.
EmptyQuery ==
  [type |-> JNull, method |-> JNull, status |-> JNull, url |-> JNull,
   startTime |-> JNull, endTime |-> JNull, limit |-> JNull, offset |-> JNull,
   minResponseSize |-> JNull, maxResponseSize |-> JNull, minStatus |-> JNull,
   maxStatus |-> JNull, error |-> JNull, sortBy |-> JNull, sortOrder |-> JNull]

With(query, field, value) == [query EXCEPT ![field] = Some(value)]

\* Queries with one predicate.
PredicateQueries ==
  {With(EmptyQuery, "type", t) : t \in {"xhr", "all"}}
    \cup {With(EmptyQuery, "method", "POST")}
    \cup {With(EmptyQuery, "status", n) : n \in {0, 200}}
    \cup {With(EmptyQuery, "url", u) : u \in {<<"b">>, <<"_">>}}
    \cup {With(EmptyQuery, "startTime", 1), With(EmptyQuery, "endTime", 1)}
    \cup {With(EmptyQuery, "minResponseSize", n) : n \in {0, 128}}
    \cup {With(EmptyQuery, "maxResponseSize", n) : n \in {0, 128}}
    \cup {With(EmptyQuery, "minStatus", n) : n \in {0, 400}}
    \cup {With(EmptyQuery, "maxStatus", n) : n \in {0, 300}}
    \cup {With(EmptyQuery, "error", e) : e \in {<<"E", "R", "R">>, <<"e", "r", "r">>}}

\* Queries with two predicates.
ConjunctionQueries ==
  {With(With(EmptyQuery, "type", "xhr"), "minStatus", 500),
   With(With(EmptyQuery, "method", "GET"), "maxResponseSize", 128)}

\* Queries that sort and cut.
OrderQueries ==
  {With(EmptyQuery, "sortBy", c) : c \in {"timestamp", "responseSize", "status"}}
    \cup {With(With(EmptyQuery, "sortBy", "timestamp"), "sortOrder", "asc"),
          With(With(EmptyQuery, "sortBy", "responseSize"), "sortOrder", "desc")}

PageQueries ==
  {With(EmptyQuery, "limit", l) : l \in {0, 1}}
    \cup {With(EmptyQuery, "offset", 1)}
    \cup {With(With(EmptyQuery, "limit", l), "offset", 1) : l \in {1, 2}}

Queries ==
  {EmptyQuery} \cup PredicateQueries \cup ConjunctionQueries
    \cup OrderQueries \cup PageQueries

\* The arguments of clearOldRequests.
PruneDays == {0, 1, 2}

\* A day passes.
DayPasses ==
  /\ now < MaxDay
  /\ now' = now + 1
  /\ Quiet("tick")
  /\ UNCHANGED <<monitorVars, serverVars, rows, returned, replaced, priorPrune>>

InitStore ==
  /\ InitMonitor
  /\ InitServerIdle
  /\ InitHarnessIdle
  /\ InitStoreEmpty

\* clearOldRequests is called with a cutoff inside the calendar.
NextStore ==
  \/ \E r \in SaveInputs : SaveRequest(r) /\ UNCHANGED harnessVars
  \/ \E q \in Queries : QueryRequests(q) /\ UNCHANGED harnessVars
  \/ GetRequestStats /\ UNCHANGED harnessVars
  \/ \E d \in PruneDays :
       d * DayLength <= now /\ ClearOldRequests(d) /\ UNCHANGED harnessVars
  \/ DayPasses /\ UNCHANGED harnessVars

SpecStore == InitStore /\ [][NextStore]_vars

\* The row has, column by column, what the record has; a field the record
\* leaves unset is NULL in the row.
ColumnsEqual(row, request) ==
  /\ row.id = request.id
  /\ row.type = Some(request.type)
  /\ row.method = Some(request.method)
  /\ row.url = Some(request.url)
  /\ IF IsNull(request.status) THEN IsNull(row.status)
     ELSE ~IsNull(row.status) /\ TextToNumber(row.status[1]) = request.status[1]
  /\ ~IsNull(row.headers) /\ JsonParse(row.headers[1]) = request.headers
  /\ ~IsNull(row.responseHeaders)
  /\ JsonParse(row.responseHeaders[1]) = request.responseHeaders
  /\ row.responseBody = request.responseBody
  /\ row.responseSize = Some(request.responseSize)
  /\ row.body = request.body
  /\ row.timestamp = Some(request.timestamp)
  /\ row.encodedDataLength = request.encodedDataLength
  /\ row.error = request.error

\* C15: the store holds at most one row per identifier, and after a save the
\* row of the saved identifier equals the saved record in every column: a
\* column the record leaves unset is NULL even if the replaced row had it.
C15_SaveIsUpsert ==
  /\ \A x, y \in rows : x.id = y.id => x = y
  /\ (last.op = "saveRequest" /\ returned.ok) =>
       \E x \in rows : ColumnsEqual(x, last.arg)

\* A record with a status, a response body and an encoded length has been
\* replaced by a record of the same identifier that sets none of them.
C15_Witness ==
  /\ last.op = "saveRequest"
  /\ last.arg = SavedDocumentAgain
  /\ replaced = Some(RowOf(SavedDocument))
  /\ \E x \in rows :
       /\ x.id = "r1"
       /\ IsNull(x.status) /\ IsNull(x.responseBody) /\ IsNull(x.encodedDataLength)
  /\ Cardinality(rows) >= 2

\* The ids of the records a query returned.
ReturnedIds == {returned.value[i].id : i \in 1..Len(returned.value)}

\* The row satisfies every predicate that is present in the query.
Satisfies(row, query) ==
  /\ (~IsNull(query.type) /\ query.type[1] # "all") => row.type = query.type
  /\ ~IsNull(query.method) => row.method = query.method
  /\ ~IsNull(query.status) =>
       (~IsNull(row.status) /\ TextToNumber(row.status[1]) = query.status[1])
  /\ ~IsNull(query.url) => Includes(row.url[1], query.url[1])
  /\ ~IsNull(query.startTime) => row.timestamp[1] >= query.startTime[1]
  /\ ~IsNull(query.endTime) => row.timestamp[1] <= query.endTime[1]
  /\ ~IsNull(query.minResponseSize) =>
       row.responseSize[1] >= query.minResponseSize[1]
  /\ ~IsNull(query.maxResponseSize) =>
       row.responseSize[1] <= query.maxResponseSize[1]
  /\ ~IsNull(query.minStatus) =>
       (~IsNull(row.status) /\ TextToNumber(row.status[1]) >= query.minStatus[1])
  /\ ~IsNull(query.maxStatus) =>
       (~IsNull(row.status) /\ TextToNumber(row.status[1]) <= query.maxStatus[1])
  /\ ~IsNull(query.error) =>
       (~IsNull(row.error) /\ Includes(TextChars(row.error[1]), query.error[1]))

\* C16: a query without limit and offset returns exactly the stored records
\* that satisfy every predicate present in the query.
C16_QueryIsConjunction ==
  (/\ last.op = "queryRequests"
   /\ IsNull(last.arg.limit)
   /\ IsNull(last.arg.offset)) =>
    /\ returned.ok
    /\ ReturnedIds = {x.id : x \in {y \in rows : Satisfies(y, last.arg)}}

\* The records a query returned are in timestamp-descending order.
NewestFirst ==
  \A i, j \in 1..Len(returned.value) :
    i < j => returned.value[i].timestamp >= returned.value[j].timestamp

\* The stored rows that have a status, and it is at least m, at most n.
StatusAtLeast(m) ==
  {x \in rows : ~IsNull(x.status) /\ TextToNumber(x.status[1]) >= m}

StatusAtMost(n) ==
  {x \in rows : ~IsNull(x.status) /\ TextToNumber(x.status[1]) <= n}

\* C17: query({minStatus: m}) returns exactly the stored records whose numeric
\* status is at least m, query({maxStatus: n}) exactly those whose numeric
\* status is at most n, newest first; a record without status is in neither.
C17_StatusRange ==
  /\ (last.op = "queryRequests"
      /\ ~IsNull(last.arg.minStatus)
      /\ last.arg = With(EmptyQuery, "minStatus", last.arg.minStatus[1])) =>
       /\ returned.ok
       /\ ReturnedIds = {x.id : x \in StatusAtLeast(last.arg.minStatus[1])}
       /\ NewestFirst
  /\ (last.op = "queryRequests"
      /\ ~IsNull(last.arg.maxStatus)
      /\ last.arg = With(EmptyQuery, "maxStatus", last.arg.maxStatus[1])) =>
       /\ returned.ok
       /\ ReturnedIds = {x.id : x \in StatusAtMost(last.arg.maxStatus[1])}
       /\ NewestFirst

\* The same for a bound that is not 0.
StatusRangeOfNonZeroBound ==
  (last.op = "queryRequests"
   /\ (NumTruthy(last.arg.minStatus) \/ NumTruthy(last.arg.maxStatus))) =>
    C17_StatusRange

\* The sequence without its first `skip' elements, cut to `keep' elements.
SkipKeep(seq, skip, keep) ==
  SubSeq(seq, skip + 1,
         IF skip + keep < Len(seq) THEN skip + keep ELSE Len(seq))

\* C18: a query returns the selected records in the requested order (newest
\* first by default), without the first `offset' of them and cut to `limit'
\* of them, for every offset and limit, given or absent.
C18_SortThenOffsetLimit ==
  last.op = "queryRequests" =>
    /\ returned.ok
    /\ \E s \in Orderings({x \in rows : WherePasses(x, last.arg)}, last.arg) :
         LET skip == IF IsNull(last.arg.offset) THEN 0 ELSE last.arg.offset[1]
             keep == IF IsNull(last.arg.limit) THEN Len(s) ELSE last.arg.limit[1]
             page == SkipKeep(s, skip, keep)
         IN  returned.value = [i \in 1..Len(page) |-> QueryRow(page[i])]

\* The same for a query whose limit is given and is not 0.
SortThenOffsetLimitWithLimit ==
  (last.op = "queryRequests" /\ NumTruthy(last.arg.limit)) =>
    C18_SortThenOffsetLimit

\* C19: clearOldRequests(d) deletes exactly the rows whose timestamp is
\* strictly older than the current time minus d days, returns their number
\* and leaves every other row as it was.
C19_PruneDeletesExactlyTheOld ==
  [][(last'.op = "clearOldRequests" /\ returned'.ok) =>
       LET old == {x \in rows : x.timestamp[1] < now - last'.arg * DayLength}
       IN  /\ rows' = rows \ old
           /\ returned'.value = Cardinality(old)]_vars

\* clearOldRequests has deleted one row and kept a row that is exactly as old
\* as the cutoff.
C19_Witness ==
  /\ last.op = "clearOldRequests"
  /\ last.arg = 1
  /\ returned = Returned(1)
  /\ \E x \in rows : x.timestamp[1] = now - last.arg * DayLength

RECURSIVE SumOfCounts(_, _)
SumOfCounts(stats, names) ==
  IF names = {} THEN 0
  ELSE LET n == CHOOSE m \in names : TRUE
       IN  stats[n] + SumOfCounts(stats, names \ {n})

\* The count a statistics object gives a name; a name it does not have
\* counts nothing.
CountOf(stats, n) == IF n \in DOMAIN stats THEN stats[n] ELSE 0

\* C21: getRequestStats returns totalCount equal to the number of rows, one
\* row per stored identifier; typeStats gives every type the number of rows
\* of that type and statusStats every status the number of rows of that
\* status, the rows without a status being counted under "null"; the counts
\* of typeStats and those of statusStats each add up to totalCount.
C21_StatsCountRows ==
  (last.op = "getRequestStats" /\ returned.ok) =>
    LET stats == returned.value
    IN  /\ stats.totalCount = Cardinality(rows)
        /\ stats.totalCount = Cardinality({x.id : x \in rows})
        /\ \A r \in SaveInputs :
             /\ CountOf(stats.typeStats, r.type)
                  = Cardinality({x \in rows : x.type = Some(r.type)})
             /\ CountOf(stats.statusStats, StatusProperty(RowOf(r).status))
                  = Cardinality({x \in rows : x.status = RowOf(r).status})
        /\ SumOfCounts(stats.typeStats, DOMAIN stats.typeStats) = stats.totalCount
        /\ SumOfCounts(stats.statusStats, DOMAIN stats.statusStats)
             = stats.totalCount

\* The statistics of three rows: two share a type, one has no status.
C21_Witness ==
  /\ last.op = "getRequestStats"
  /\ returned.ok
  /\ returned.value.totalCount = 3
  /\ CountOf(returned.value.typeStats, "xhr") = 2
  /\ \E x \in rows : IsNull(x.status)

(***************************************************************************)
(* SpecSession: a monitor with its store over several tracking sessions.   *)
(* Records of the live table and a complete record are saved, the store is *)
(* queried and cleared, while monitoring is started and stopped.           *)
(***************************************************************************)
SessionStartParams == {s \in TableStartParams : s.type = "document"}

\* A record of the live table as a NetworkRequest: the handlers never set
\* responseBody, body and encodedDataLength.
AsNetworkRequest(request) ==
  [id |-> request.id, timestamp |-> request.timestamp,
   method |-> request.method, url |-> request.url,
   headers |-> request.headers, type |-> request.type,
   status |-> Some(request.status),
   responseHeaders |-> request.responseHeaders,
   responseSize |-> request.responseSize,
   responseBody |-> JNull, body |-> JNull, encodedDataLength |-> JNull,
   error |-> request.error]

\* saveRequest with a record of the live table.
SaveActive(key) ==
  /\ MapHas(networkRequests, key)
  /\ SaveRequest(AsNetworkRequest(MapGet(networkRequests, key)))

\* Mutant of Tracked: a handler saves the record of its event.
Tracked_SavesRecord(step) ==
  /\ step
  /\ rows' = IF dbOpen /\ MapHas(networkRequests', last'.key)
             THEN saveRequest(rows, AsNetworkRequest(MapGet(networkRequests',
                                                            last'.key)))
             ELSE rows
  /\ UNCHANGED <<harnessVars, returned, replaced, priorPrune>>

\* A step of the tracker: a handler, connect, disconnect or setRequestFilter.
\* None of them calls a method of requestDb that reads or writes a row.
Tracked(step) == step /\ UNCHANGED <<harnessVars, storeVars>>

InitSession ==
  /\ InitMonitor
  /\ InitServerIdle
  /\ InitHarnessIdle
  /\ InitStoreEmpty

NextSession ==
  \/ \E r \in RequestIds, s \in SessionStartParams :
       Tracked(RequestWillBeSentEvent(MainPrefix, r, s))
  \/ \E r \in RequestIds, s \in TableResponseParams :
       Tracked(ResponseReceivedEvent(MainPrefix, r, s))
  \/ \E r \in RequestIds, n \in TableFinishedParams :
       Tracked(LoadingFinishedEvent(MainPrefix, r, n))
  \/ \E r \in RequestIds, e \in TableFailedParams :
       Tracked(LoadingFailedEvent(MainPrefix, r, e))
  \/ Tracked(SetNetworkCallback)
  \/ \E f \in {x \in TableFilters : ~IsNull(x.types)} :
       Tracked(SetRequestFilter(f))
  \/ Tracked(Connect("ok", {}))
  \/ Tracked(Disconnect)
  \/ \E r \in RequestIds :
       SaveActive(RequestKey(MainPrefix, r)) /\ UNCHANGED harnessVars
  \/ SaveRequest(SavedServerError) /\ UNCHANGED harnessVars
  \/ QueryRequests(EmptyQuery) /\ UNCHANGED harnessVars
  \/ GetRequestStats /\ UNCHANGED harnessVars
  \/ ClearOldRequests(0) /\ UNCHANGED harnessVars

SpecSession == InitSession /\ [][NextSession]_vars

\* The operations the monitor hands to its store.
StoreOps ==
  {"saveRequest", "queryRequests", "getRequestStats", "clearOldRequests"}

\* C12: the store outlives a tracking session: whenever it is called, after
\* a stop and after a later start too, a store operation succeeds, and a query
\* for everything returns every record that is stored.
C12_StoreOutlivesSession ==
  last.op \in StoreOps =>
    /\ returned.ok
    /\ (last.op = "queryRequests" /\ last.arg = EmptyQuery) =>
         ReturnedIds = {x.id : x \in rows}

\* As long as disconnect has not been called, the store operations succeed.
StoreWorksBeforeFirstStop ==
  (last.op \in StoreOps /\ dbOpen) =>
    /\ returned.ok
    /\ (last.op = "queryRequests" /\ last.arg = EmptyQuery) =>
         ReturnedIds = {x.id : x \in rows}

\* The returned record equals the saved one in every field the claim names.
EqualInEveryField(out, request) ==
  /\ out.id = request.id
  /\ out.timestamp = request.timestamp
  /\ out.method = request.method
  /\ out.url = request.url
  /\ out.headers = request.headers
  /\ out.type = request.type
  /\ Some(out.status) = request.status
  /\ out.responseHeaders = request.responseHeaders
  /\ out.responseSize = request.responseSize
  /\ Some(out.responseBody) = request.responseBody
  /\ out.encodedDataLength = request.encodedDataLength
  /\ out.error = request.error

\* C14: a query for everything that directly follows save(r) returns a
\* record equal to r in every field, whatever r is, a record of the live
\* table included.
C14_RoundTrip ==
  [][(/\ last.op = "saveRequest"
      /\ returned.ok
      /\ last'.op = "queryRequests"
      /\ last'.arg = EmptyQuery) =>
       /\ returned'.ok
       /\ \E i \in 1..Len(returned'.value) :
            EqualInEveryField(returned'.value[i], last.arg)]_vars

\* The round trip of a record that has a status, a non-empty response body
\* and an error that is not the empty string.
RoundTripOfCompleteRecord ==
  [][(/\ last.op = "saveRequest"
      /\ returned.ok
      /\ ~IsNull(last.arg.status)
      /\ StringTruthy(last.arg.responseBody)
      /\ last.arg.error # Some("")
      /\ last'.op = "queryRequests"
      /\ last'.arg = EmptyQuery) =>
       /\ returned'.ok
       /\ \E i \in 1..Len(returned'.value) :
            EqualInEveryField(returned'.value[i], last.arg)]_vars

(***************************************************************************)
(* The store and the tracker.                                              *)
(***************************************************************************)
\* C22: a store operation, whether it returns or throws, leaves the live
\* table, the filter and the subscriber as they were and calls no subscriber;
\* whatever the store has answered, a later event on a tracked record is
\* merged and passed to the subscriber when the record passes the filter.
C22_StoreLeavesTrackerAlone ==
  [][/\ last'.op \in StoreOps =>
          /\ UNCHANGED <<networkRequests, requestFilter, networkCallback>>
          /\ emitted' = << >>
          /\ pushed' = 0
     /\ (last'.op \in MergeOps /\ last'.tracked) =>
          /\ MergeVisible'
          /\ emitted' = Notify(requestFilter, networkCallback, LastRecord')]_vars

\* After a store operation has thrown, an event has been merged and passed
\* to the subscriber.
C22_Witness ==
  /\ MergedTracked
  /\ emitted = <<LastRecord>>
  /\ ~returned.ok
  /\ last.op = "loadingFinished"

(***************************************************************************)
(* SpecArrival: the events of one identifier on a connected monitor with a *)
(* subscriber: any number of events of each kind, in any order, while time *)
(* passes.  `delivered' holds the events in the order of their arrival.    *)
(***************************************************************************)
\* The number of events of a run.
MaxEvents == 3

ArrivalEvents ==
  {[kind |-> "start", params |-> s] : s \in StartParams} \cup ScriptEvents

InitArrival ==
  /\ networkRequests = << >>
  /\ requestFilter = [urlPattern |-> JNull, types |-> JNull]
  /\ networkCallback = Some("emit")
  /\ client = Some("main")
  /\ connected = TRUE
  /\ dbOpen = TRUE
  /\ mainListening = TRUE
  /\ orphans = {}
  /\ now = 0
  /\ emitted = << >>
  /\ pushed = 0
  /\ last = [op |-> "connect", key |-> "", arg |-> << >>, tracked |-> FALSE]
  /\ cleared = {}
  /\ InitServerIdle
  /\ script = {}
  /\ delivered = << >>
  /\ twin = NoTwin
  /\ InitStoreEmpty

Arrive(e) ==
  /\ Len(delivered) < MaxEvents
  /\ delivered' = Append(delivered, e)
  /\ UNCHANGED <<script, twin, storeVars>>
  /\ CASE e.kind = "start" ->
            RequestWillBeSentEvent(MainPrefix, LifecycleId, e.params)
       [] e.kind = "response" ->
            ResponseReceivedEvent(MainPrefix, LifecycleId, e.response)
       [] e.kind = "finished" ->
            LoadingFinishedEvent(MainPrefix, LifecycleId, e.encodedDataLength)
       [] e.kind = "failed" ->
            LoadingFailedEvent(MainPrefix, LifecycleId, e.errorText)

NextArrival ==
  \/ \E e \in ArrivalEvents : Arrive(e)
  \/ GetActiveNetworkRequests /\ UNCHANGED harnessVars
  \/ Tick /\ UNCHANGED <<harnessVars, storeVars>>

SpecArrival == InitArrival /\ [][NextArrival]_vars

\* C23: a requestWillBeSent for a key that has a record replaces the record:
\* the live table has the same keys in the same number, and the record of the
\* key is the one the event creates for a key that has none: the event's
\* method, url, headers and type, the time of the event as timestamp, status
\* 0, no response header and responseSize 0.
C23_LastStartWins ==
  [][(last'.op = "requestWillBeSent" /\ last'.tracked) =>
       LET record == MapGet(networkRequests', last'.key)
           fresh == requestWillBeSent(<< >>, MainPrefix, last'.key, last'.arg, now)
       IN  /\ Len(networkRequests') = Len(networkRequests)
           /\ MapKeys(networkRequests') = MapKeys(networkRequests)
           /\ record = MapGet(fresh.table, last'.key)
           /\ record.id = last'.key
           /\ record.timestamp = now
           /\ record.method = last'.arg.method
           /\ record.url = last'.arg.url
           /\ record.headers = last'.arg.headers
           /\ record.type = last'.arg.type
           /\ record.status = 0
           /\ record.responseHeaders = {}
           /\ record.responseSize = 0
           /\ emitted' = << >>]_vars

\* A second requestWillBeSent with other params has arrived, later than the
\* first one and after a response was merged.
C23_Witness ==
  /\ Len(delivered) = 3
  /\ delivered[1].kind = "start"
  /\ delivered[2].kind = "response"
  /\ delivered[3].kind = "start"
  /\ delivered[3].params # delivered[1].params
  /\ last.op = "requestWillBeSent"
  /\ last.tracked
  /\ now = 1
  /\ MapGet(networkRequests, LifecycleKey).timestamp = 1

(***************************************************************************)
(* The terminal events.                                                    *)
(***************************************************************************)
\* The record has an error text.
HasError(request) == request.error \notin {JNull, Some("")}

\* C24: a loadingFailed event on a tracked record sets the record's error to
\* the event's text, or to the unknown-error text when the event has none,
\* and then calls the subscriber, if one is registered, exactly when the
\* record passes the filter; the error is then neither empty nor null, and
\* no later merge event makes it so.
C24_FailureSetsError ==
  [][/\ (last'.op = "loadingFailed" /\ last'.tracked) =>
          /\ LastRecord'.error
               = Some(IF last'.arg = "" THEN UnknownError ELSE last'.arg)
          /\ HasError(LastRecord')
          /\ emitted' = IF shouldProcessRequest(requestFilter, LastRecord')
                           /\ Subscribed
                        THEN <<LastRecord'>> ELSE << >>
     /\ (/\ last'.op \in MergeOps
         /\ last'.tracked
         /\ HasError(MapGet(networkRequests, last'.key))) =>
          HasError(LastRecord')]_vars

\* A loadingFailed event without a text has been merged and passed to the
\* subscriber.
C24_Witness ==
  /\ last.op = "loadingFailed"
  /\ last.tracked
  /\ last.arg = ""
  /\ LastRecord.error = Some(UnknownError)
  /\ emitted = <<LastRecord>>

\* C25 (as claimed): a loadingFinished event on a tracked record sets the
\* record's responseSize and encodedDataLength to the event's byte count and
\* then calls the subscriber, if one is registered, exactly when the record
\* passes the filter.
C25_FinishedSetsSizeFields ==
  (last.op = "loadingFinished" /\ last.tracked) =>
    /\ LastRecord.responseSize = last.arg
    /\ AsNetworkRequest(LastRecord).encodedDataLength = Some(last.arg)
    /\ emitted = IF shouldProcessRequest(requestFilter, LastRecord) /\ Subscribed
                 THEN <<LastRecord>> ELSE << >>

\* What the handler does: it sets responseSize and calls the subscriber.
FinishedSetsResponseSize ==
  (last.op = "loadingFinished" /\ last.tracked) =>
    /\ LastRecord.responseSize = last.arg
    /\ emitted = IF shouldProcessRequest(requestFilter, LastRecord) /\ Subscribed
                 THEN <<LastRecord>> ELSE << >>

(***************************************************************************)
(* The order of arrival.                                                   *)
(***************************************************************************)
\* The positions after position s at which an event of the kind arrived.
ArrivedAfter(s, kind) ==
  {i \in (s + 1)..Len(delivered) : delivered[i].kind = kind}

\* The last of the positions.
Latest(positions) == CHOOSE i \in positions : \A j \in positions : j <= i

\* C26: the events of an identifier are applied in the order of arrival:
\* the record has the status and the responseHeaders of the responseReceived
\* that arrived last since the record was created, the responseSize of the
\* last loadingFinished and the error of the last loadingFailed; before any
\* requestWillBeSent there is no record.
C26_LastAppliedWins ==
  IF ArrivedAfter(0, "start") = {} THEN networkRequests = << >>
  ELSE LET s == Latest(ArrivedAfter(0, "start"))
           record == MapGet(networkRequests, LifecycleKey)
           responses == ArrivedAfter(s, "response")
           sizes == ArrivedAfter(s, "finished")
           failures == ArrivedAfter(s, "failed")
       IN  /\ record.status = IF responses = {} THEN 0
                              ELSE delivered[Latest(responses)].response.status
           /\ record.responseHeaders
                = IF responses = {} THEN {}
                  ELSE delivered[Latest(responses)].response.headers
           /\ record.responseSize
                = IF sizes = {} THEN 0
                  ELSE delivered[Latest(sizes)].encodedDataLength
           /\ failures # {} =>
                record.error = Some(ErrorOf(delivered[Latest(failures)].errorText))

\* Two responseReceived events with different values have arrived for a
\* tracked identifier; the record has the values of the second.
C26_Witness ==
  /\ Len(delivered) = 3
  /\ delivered[1].kind = "start"
  /\ delivered[2].kind = "response"
  /\ delivered[3].kind = "response"
  /\ delivered[2].response.status = 200
  /\ delivered[3].response.status = 404
  /\ MapGet(networkRequests, LifecycleKey).status = 404
  /\ MapGet(networkRequests, LifecycleKey).responseHeaders = {}

(***************************************************************************)
(* SpecMalformed: the main page of a connected monitor sends events of a   *)
(* request and events that carry no requestId.                             *)
(***************************************************************************)
\* prefix + params.requestId when params has no requestId: the text that
\* JavaScript concatenates for undefined.
MissingId == "undefined"

MalformedIds == {"r1", MissingId}

NextMalformed ==
  \/ \E r \in MalformedIds, s \in TableStartParams :
       RequestWillBeSentEvent(MainPrefix, r, s) /\ UNCHANGED <<harnessVars, storeVars>>
  \/ \E r \in MalformedIds, s \in ResponseParams :
       ResponseReceivedEvent(MainPrefix, r, s) /\ UNCHANGED <<harnessVars, storeVars>>
  \/ \E r \in MalformedIds, n \in FinishedParams :
       LoadingFinishedEvent(MainPrefix, r, n) /\ UNCHANGED <<harnessVars, storeVars>>
  \/ \E r \in MalformedIds, e \in FailedParams :
       LoadingFailedEvent(MainPrefix, r, e) /\ UNCHANGED <<harnessVars, storeVars>>

SpecMalformed == InitTable /\ [][NextMalformed]_vars

\* C27 (as claimed): an event of any of the four kinds that carries no
\* requestId leaves the live table as it was, keys and records, and calls no
\* subscriber.
C27_MissingIdIsDropped ==
  [][last'.key = RequestKey(MainPrefix, MissingId) =>
       (networkRequests' = networkRequests /\ emitted' = << >>)]_vars

\* What holds: a merge event without a requestId is dropped as long as no
\* requestWillBeSent without a requestId has created the record "undefined".
MissingIdMergeIsDropped ==
  [][(/\ last'.key = RequestKey(MainPrefix, MissingId)
      /\ last'.op \in MergeOps
      /\ ~MapHas(networkRequests, RequestKey(MainPrefix, MissingId))) =>
       (networkRequests' = networkRequests /\ emitted' = << >>)]_vars

(***************************************************************************)
(* SpecPages: a monitor that is started and stopped while the browser has  *)
(* a main page and, at some starts, an additional page; every connection   *)
(* that is open delivers the events of a request.                          *)
(***************************************************************************)
NextPages ==
  \/ \E added \in SUBSET Titles :
       Connect("ok", added) /\ UNCHANGED <<harnessVars, storeVars>>
  \/ Disconnect /\ UNCHANGED <<harnessVars, storeVars>>
  \/ SetNetworkCallback /\ UNCHANGED <<harnessVars, storeVars>>
  \/ \E p \in Prefixes, r \in RequestIds, s \in SessionStartParams :
       RequestWillBeSentEvent(p, r, s) /\ UNCHANGED <<harnessVars, storeVars>>
  \/ \E p \in Prefixes, r \in RequestIds, s \in TableResponseParams :
       ResponseReceivedEvent(p, r, s) /\ UNCHANGED <<harnessVars, storeVars>>
  \/ \E p \in Prefixes, r \in RequestIds, n \in TableFinishedParams :
       LoadingFinishedEvent(p, r, n) /\ UNCHANGED <<harnessVars, storeVars>>
  \/ \E p \in Prefixes, r \in RequestIds, e \in TableFailedParams :
       LoadingFailedEvent(p, r, e) /\ UNCHANGED <<harnessVars, storeVars>>

SpecPages == Init /\ [][NextPages]_vars

\* C28 (as claimed): from the return of disconnect to the next connect no
\* event of any page connection reaches the handlers: the live table is
\* empty and no subscriber is called.
C28_StopIsTotal ==
  ~connected => (networkRequests = << >> /\ emitted = << >>)

\* What holds: the connection that client refers to is silent after
\* disconnect; when no other connection was opened, the live table stays
\* empty and no subscriber is called.
StopSilencesHeldConnection ==
  (~connected /\ orphans = {}) => (networkRequests = << >> /\ emitted = << >>)

(***************************************************************************)
(* What a merge event changes.                                             *)
(***************************************************************************)
\* The fields the handler of a merge event assigns.
FieldsOf(op) ==
  CASE op = "responseReceived" -> {"status", "responseHeaders"}
    [] op = "loadingFinished" -> {"responseSize"}
    [] op = "loadingFailed" -> {"error"}

\* C29: a responseReceived, loadingFinished or loadingFailed event on a
\* tracked record changes, in the whole live table, nothing but the fields of
\* that record its handler assigns: the record's id, timestamp, method, url,
\* headers and type stay, and so does every other record and the order of
\* the keys.
C29_MergeKeepsRequestSide ==
  [][(last'.op \in MergeOps /\ last'.tracked) =>
       LET old == MapGet(networkRequests, last'.key)
           new == MapGet(networkRequests', last'.key)
       IN  /\ \A f \in {"id", "timestamp", "method", "url", "headers", "type"} :
                new[f] = old[f]
           /\ \A f \in DOMAIN old \ FieldsOf(last'.op) : new[f] = old[f]
           /\ DOMAIN new = DOMAIN old
           /\ Len(networkRequests') = Len(networkRequests)
           /\ \A i \in 1..Len(networkRequests) :
                /\ networkRequests'[i][1] = networkRequests[i][1]
                /\ networkRequests[i][1] # last'.key =>
                     networkRequests'[i] = networkRequests[i]]_vars

\* An event has been merged into the record of one request while the record
\* of another request has its response.
C29_Witness ==
  /\ MergedTracked
  /\ last.key = "r2"
  /\ last.op = "loadingFailed"
  /\ MapHas(networkRequests, "r1")
  /\ MapGet(networkRequests, "r1").status = 200
  /\ MapGet(networkRequests, "r1").responseSize = 128

(***************************************************************************)
(* Fields that go back to their default.                                   *)
(***************************************************************************)
\* C30 (as claimed): once the record of an identifier has a status other
\* than 0, a response header, a responseSize other than 0 or an error text,
\* no later event of any kind for the identifier returns that field to its
\* default.
C30_NeverBackToDefault ==
  [][(last'.op \in MergeOps \cup {"requestWillBeSent"} /\ last'.tracked) =>
       LET old == MapGet(networkRequests, last'.key)
           new == MapGet(networkRequests', last'.key)
       IN  /\ old.status # 0 => new.status # 0
           /\ old.responseHeaders # {} => new.responseHeaders # {}
           /\ old.responseSize # 0 => new.responseSize # 0
           /\ HasError(old) => HasError(new)]_vars

\* C30 (amended): a responseReceived, loadingFinished or loadingFailed event
\* returns no field to its default that an event of another kind has set: a
\* status, responseHeaders or responseSize goes back to its default only by
\* an event of its own kind that carries the default value, and an error
\* text is never emptied.
C30_OnlyOwnKindReturnsToDefault ==
  [][(last'.op \in MergeOps /\ last'.tracked) =>
       LET old == MapGet(networkRequests, last'.key)
           new == MapGet(networkRequests', last'.key)
       IN  /\ (old.status # 0 /\ new.status = 0) =>
                (last'.op = "responseReceived" /\ last'.arg.status = 0)
           /\ (old.responseHeaders # {} /\ new.responseHeaders = {}) =>
                (last'.op = "responseReceived" /\ last'.arg.headers = {})
           /\ (old.responseSize # 0 /\ new.responseSize = 0) =>
                (last'.op = "loadingFinished" /\ last'.arg = 0)
           /\ HasError(old) => HasError(new)]_vars

\* After a loadingFailed, a responseReceived has been merged into the
\* record: the record has its error text and the status.
C30_Witness ==
  /\ Len(delivered) = 3
  /\ delivered[1].kind = "start"
  /\ delivered[2].kind = "failed"
  /\ delivered[3].kind = "response"
  /\ MergedTracked
  /\ HasError(MapGet(networkRequests, LifecycleKey))
  /\ MapGet(networkRequests, LifecycleKey).status = 200

(***************************************************************************)
(* Predicates with the value 0.                                            *)
(***************************************************************************)
\* C35 (as claimed): a numeric predicate with the value 0 is applied like any
\* other value: queryRequests({maxResponseSize: 0}) returns exactly the
\* stored records whose responseSize is at most 0, queryRequests({maxStatus:
\* 0}) exactly those whose numeric status is at most 0 and
\* queryRequests({status: 0}) exactly those whose status is 0.
C35_ZeroIsAValue ==
  /\ (last.op = "queryRequests"
      /\ last.arg = With(EmptyQuery, "maxResponseSize", 0)) =>
       /\ returned.ok
       /\ ReturnedIds = {x.id : x \in {y \in rows : y.responseSize[1] <= 0}}
  /\ (last.op = "queryRequests"
      /\ last.arg = With(EmptyQuery, "maxStatus", 0)) =>
       /\ returned.ok
       /\ ReturnedIds = {x.id : x \in StatusAtMost(0)}
  /\ (last.op = "queryRequests"
      /\ last.arg = With(EmptyQuery, "status", 0)) =>
       /\ returned.ok
       /\ ReturnedIds = {x.id : x \in StatusAtMost(0) \cap StatusAtLeast(0)}

\* What the queries with the value 0 return: every stored record.
ZeroPredicateSelectsAll ==
  (/\ last.op = "queryRequests"
   /\ last.arg \in {With(EmptyQuery, "maxResponseSize", 0),
                    With(EmptyQuery, "maxStatus", 0),
                    With(EmptyQuery, "status", 0)}) =>
    /\ returned.ok
    /\ ReturnedIds = {x.id : x \in rows}

(***************************************************************************)
(* What the subscriber is given, and when.                                 *)
(***************************************************************************)
\* No responseReceived, loadingFinished or loadingFailed has arrived.
OnlyStarted ==
  \A kind \in {"response", "finished", "failed"} : ArrivedAfter(0, kind) = {}

\* C36: requestWillBeSent calls no subscriber; the subscriber is called by
\* the merge events of a tracked record and by nothing else, so that the
\* first merge event is the first delivery of a request; as long as only
\* requestWillBeSent events have arrived nothing is delivered, while
\* getActiveNetworkRequests returns the record.
C36_StartIsNotDelivered ==
  [][/\ last'.op = "requestWillBeSent" => (emitted' = << >> /\ pushed' = 0)
     /\ emitted' # << >> => (last'.op \in MergeOps /\ last'.tracked)
     /\ (last'.op \in MergeOps /\ last'.tracked) => emitted' = <<LastRecord'>>
     /\ OnlyStarted' => emitted' = << >>
     /\ last'.op = "getActiveNetworkRequests" =>
          /\ last'.arg = MapValues(networkRequests)
          /\ \A k \in MapKeys(networkRequests) :
               \E i \in 1..Len(last'.arg) : last'.arg[i].id = k]_vars

\* Only a requestWillBeSent has arrived: getActiveNetworkRequests returns
\* the record, which no subscriber has been given.
C36_Witness ==
  /\ last.op = "getActiveNetworkRequests"
  /\ Len(delivered) = 1
  /\ delivered[1].kind = "start"
  /\ Len(last.arg) = 1
  /\ last.arg[1].id = LifecycleKey
  /\ last.arg[1].status = 0
  /\ emitted = << >>

\* The value of a field after the events that arrived: the one of the last
\* event of the kind since the last requestWillBeSent, or the default.
FromLast(kind, default, Value(_)) ==
  LET events == ArrivedAfter(Latest(ArrivedAfter(0, "start")), kind)
  IN  IF events = {} THEN default ELSE Value(delivered[Latest(events)])

\* C33: the merge and the call of the subscriber are one step: the record
\* the subscriber is given is the record of the live table after the merge,
\* and its fields are those of the events that have arrived up to and
\* including the event that caused the call, no other.
C33_NotifiedRecordIsCurrent ==
  emitted # << >> =>
    LET given == emitted[1]
        start == delivered[Latest(ArrivedAfter(0, "start"))].params
    IN  /\ Len(emitted) = 1
        /\ given = MapGet(networkRequests, LifecycleKey)
        /\ last.op = CASE delivered[Len(delivered)].kind = "response" -> "responseReceived"
                       [] delivered[Len(delivered)].kind = "finished" -> "loadingFinished"
                       [] delivered[Len(delivered)].kind = "failed" -> "loadingFailed"
                       [] OTHER -> "requestWillBeSent"
        /\ given.method = start.method
        /\ given.url = start.url
        /\ given.type = start.type
        /\ given.status = FromLast("response", 0, LAMBDA e : e.response.status)
        /\ given.responseHeaders
             = FromLast("response", {}, LAMBDA e : e.response.headers)
        /\ given.responseSize
             = FromLast("finished", 0, LAMBDA e : e.encodedDataLength)
        /\ given.error
             = FromLast("failed", Some(""), LAMBDA e : Some(ErrorOf(e.errorText)))

\* The subscriber has been given a record that two earlier events and the
\* last one have filled.
C33_Witness ==
  /\ Len(delivered) = 3
  /\ delivered[1].kind = "start"
  /\ delivered[2].kind = "finished"
  /\ delivered[3].kind = "response"
  /\ emitted # << >>
  /\ emitted[1].responseSize = 128
  /\ emitted[1].status = 200

(***************************************************************************)
(* Two SSE connections.                                                    *)
(***************************************************************************)
\* C37 (as claimed): while the SSE connection that was accepted last is
\* open, the transport slot refers to it and monitoring goes on: when another
\* connection closes, the slot keeps the transport (a POST is not answered
\* 503) and the monitor is not disconnected.
C37_OtherCloseKeepsTransport ==
  [][(/\ last'.op = "sseClose"
      /\ ~IsNull(transport)
      /\ transport[1] # last'.arg
      /\ transport[1] \in sseOpen) =>
       /\ transport' = transport
       /\ connected' = connected
       /\ client' = client
       /\ dbOpen' = dbOpen
       /\ networkRequests' = networkRequests]_vars

\* What holds: the close of any SSE connection empties the slot and
\* disconnects the monitor.
AnyCloseStopsEverything ==
  last.op = "sseClose" =>
    /\ IsNull(transport)
    /\ ~connected
    /\ IsNull(client)
    /\ ~dbOpen
    /\ networkRequests = << >>

(***************************************************************************)
(* SpecCalls: a monitor whose main page has two requests, driven through   *)
(* every public method: sessions are started and stopped, the filter is    *)
(* set, the live table is listed, and the store is written, queried,       *)
(* counted and cleared.                                                    *)
(***************************************************************************)
NextCalls ==
  \/ \E r \in TableIds, s \in SessionStartParams :
       Tracked(RequestWillBeSentEvent(MainPrefix, r, s))
  \/ \E r \in TableIds, s \in TableResponseParams :
       Tracked(ResponseReceivedEvent(MainPrefix, r, s))
  \/ \E r \in TableIds, n \in TableFinishedParams :
       Tracked(LoadingFinishedEvent(MainPrefix, r, n))
  \/ \E r \in TableIds, e \in TableFailedParams :
       Tracked(LoadingFailedEvent(MainPrefix, r, e))
  \/ \E f \in {x \in TableFilters : ~IsNull(x.types)} :
       Tracked(SetRequestFilter(f))
  \/ ~connected /\ Tracked(Connect("ok", {}))
  \/ Tracked(Disconnect)
  \/ GetActiveNetworkRequests /\ UNCHANGED harnessVars
  \/ SaveRequest(SavedServerError) /\ UNCHANGED harnessVars
  \/ QueryRequests(EmptyQuery) /\ UNCHANGED harnessVars
  \/ GetRequestStats /\ UNCHANGED harnessVars
  \/ ClearOldRequests(0) /\ UNCHANGED harnessVars

SpecCalls == Init /\ [][NextCalls]_vars

\* C31: no step but disconnect removes a key from the live table: an event,
\* setRequestFilter, getActiveNetworkRequests and the store operations leave
\* every key in its place; disconnect removes all keys at once.
C31_TableOnlyGrows ==
  [][IF last'.op = "disconnect" THEN networkRequests' = << >>
     ELSE /\ MapKeys(networkRequests) \subseteq MapKeys(networkRequests')
          /\ Len(networkRequests) <= Len(networkRequests')
          /\ \A i \in 1..Len(networkRequests) :
               networkRequests'[i][1] = networkRequests[i][1]]_vars

\* A disconnect has emptied a live table; both requests have been dropped.
C31_Witness ==
  /\ last.op = "disconnect"
  /\ networkRequests = << >>
  /\ cleared = TableIds

Pages ==
  {[target |-> "main", prefix |-> MainPrefix],
   [target |-> "t1", prefix |-> TitlePrefix("A")],
   [target |-> "t2", prefix |-> TitlePrefix("A")],
   [target |-> "t3", prefix |-> TitlePrefix("B")]}

PageEvents ==
  {[page |-> p, kind |-> "start", params |-> s] :
     p \in Pages, s \in SessionStartParams}
    \cup {[page |-> p, kind |-> "response", response |-> s] :
            p \in Pages, s \in TableResponseParams}
    \cup {[page |-> p, kind |-> "finished", encodedDataLength |-> n] :
            p \in Pages, n \in TableFinishedParams}
    \cup {[page |-> p, kind |-> "failed", errorText |-> e] :
            p \in Pages, e \in TableFailedParams}

InitTitles ==
  /\ networkRequests = << >>
  /\ requestFilter = [urlPattern |-> JNull, types |-> JNull]
  /\ networkCallback = Some("emit")
  /\ client = Some("main")
  /\ connected = TRUE
  /\ dbOpen = TRUE
  /\ mainListening = TRUE
  /\ orphans = {p.prefix : p \in Pages} \ {MainPrefix}
  /\ now = 0
  /\ emitted = << >>
  /\ pushed = 0
  /\ last = [op |-> "connect", key |-> "", arg |-> << >>, tracked |-> FALSE]
  /\ cleared = {}
  /\ InitServerIdle
  /\ script = {}
  /\ delivered = << >>
  /\ twin = NoTwin
  /\ InitStoreEmpty

PageArrive(e) ==
  /\ Len(delivered) < MaxEvents
  /\ delivered' = Append(delivered, e)
  /\ UNCHANGED <<script, twin, storeVars>>
  /\ CASE e.kind = "start" ->
            RequestWillBeSentEvent(e.page.prefix, LifecycleId, e.params)
       [] e.kind = "response" ->
            ResponseReceivedEvent(e.page.prefix, LifecycleId, e.response)
       [] e.kind = "finished" ->
            LoadingFinishedEvent(e.page.prefix, LifecycleId, e.encodedDataLength)
       [] e.kind = "failed" ->
            LoadingFailedEvent(e.page.prefix, LifecycleId, e.errorText)

NextTitles == \E e \in PageEvents : PageArrive(e)

SpecTitles == InitTitles /\ [][NextTitles]_vars

\* The page that created the record an event of `page' finds under its key:
\* the page of the last requestWillBeSent that arrived with that key (the
\* requestId being the same, the key is the same when the prefix is).
CreatorOf(events, page) ==
  LET starts == {i \in 1..Len(events) :
                   /\ events[i].kind = "start"
                   /\ events[i].page.prefix = page.prefix}
  IN  IF starts = {} THEN {} ELSE {events[Latest(starts)].page}

\* C32 (as claimed): the requests of two page connections never share a
\* key: an event of one page changes nothing in a record that the
\* requestWillBeSent of another page has created, whatever the titles.
C32_KeysApartAcrossPages ==
  [][delivered' # delivered =>
       LET e == delivered'[Len(delivered')]
       IN  \A creator \in CreatorOf(delivered, e.page) :
             creator # e.page =>
               (networkRequests' = networkRequests /\ emitted' = << >>)]_vars

\* What holds: an event changes a record of another page only if the two
\* pages have the same title.
PagesApartByTitle ==
  [][delivered' # delivered =>
       LET e == delivered'[Len(delivered')]
       IN  /\ last'.key = RequestKey(e.page.prefix, LifecycleId)
           /\ \A i \in 1..Len(networkRequests) :
                networkRequests[i][1] # last'.key =>
                  networkRequests'[i] = networkRequests[i]
           /\ \A p \in Pages :
                p.prefix # e.page.prefix =>
                  RequestKey(p.prefix, LifecycleId) # last'.key]_vars

(***************************************************************************)
(* SpecFanout: the BrowserMonitorServer when a listener of                 *)
(* 'network_request' throws while it handles a record.                     *)
(***************************************************************************)
(* The network callback is eventEmitter.emit('network_request', request).  *)
(* emit calls the listeners in the order of their registration and catches *)
(* nothing: when a listener throws, the exception leaves emit, the         *)
(* callback and the handler, and the listeners registered after the        *)
(* thrower are not called.  The pushing listeners that had their turn have *)
(* sent their network_update: any number from none to all of them.         *)
ThrowingMerge(op, key, arg, result) ==
  /\ Listening(MainPrefix)
  /\ result.calls # << >>
  /\ streamListeners > 0
  /\ networkRequests' = result.table
  /\ last' = [op |-> op, key |-> key, arg |-> arg,
              tracked |-> MapHas(networkRequests, key)]
  /\ emitted' = result.calls
  /\ pushed' \in IF IsNull(transport) THEN {0} ELSE 0..streamListeners
  /\ UNCHANGED <<cleared, requestFilter, networkCallback, client, connected,
                 dbOpen, mainListening, orphans, now, serverVars>>

NextFanout ==
  \/ NextServer
  \/ \E r \in RequestIds, s \in TableResponseParams :
       /\ ThrowingMerge("responseReceived", RequestKey(MainPrefix, r), s,
                        responseReceived(networkRequests, requestFilter,
                                         networkCallback, MainPrefix, r, s))
       /\ UNCHANGED <<harnessVars, storeVars>>
  \/ \E r \in RequestIds, n \in TableFinishedParams :
       /\ ThrowingMerge("loadingFinished", RequestKey(MainPrefix, r), n,
                        loadingFinished(networkRequests, requestFilter,
                                        networkCallback, MainPrefix, r, n))
       /\ UNCHANGED <<harnessVars, storeVars>>
  \/ \E r \in RequestIds, e \in TableFailedParams :
       /\ ThrowingMerge("loadingFailed", RequestKey(MainPrefix, r), e,
                        loadingFailed(networkRequests, requestFilter,
                                      networkCallback, MainPrefix, r, e))
       /\ UNCHANGED <<harnessVars, storeVars>>

SpecFanout == InitServer /\ [][NextFanout]_vars

\* C34 (as claimed): when one listener throws while it handles a record,
\* every other registered listener still gets the record (with the transport
\* set, all pushing listeners but at most one send their network_update)
\* and the merge stays in the live table.
C34_FailureIsIsolated ==
  (MergedTracked /\ emitted # << >> /\ ~IsNull(transport)) =>
    /\ pushed >= streamListeners - 1
    /\ MergeVisible

\* What holds: the merge is in the live table whether a listener throws or
\* not.
MergeStaysApplied ==
  (MergedTracked /\ emitted # << >>) => MergeVisible

=============================================================================
